---- MODULE Spec2Model ----
(***************************************************************************)
(* Image steganography toolkit: the signature scanner, its confidence      *)
(* scoring, the appended-data validator and the threat aggregation, as     *)
(* implemented by the builds of the application kept in this repository:    *)
(*   app      src/app.js                                                   *)
(*   part000  src/unnamed/part_000   ("Corrected & Enhanced Version")      *)
(*   part001  src/unnamed/part_001   ("Complete Working Version")          *)
(*   part002  src/unnamed/part_002   ("Final JS")                          *)
(*   part003  src/unnamed/part_003   (robust scanner, lines 1..5038)       *)
(*                                                                         *)
(* A file is modelled by its length, its MIME type, the places where the   *)
(* byte patterns the code searches for occur in its hex text, and the      *)
(* statistics of its content that the scoring functions compute (null     *)
(* ratio, entropy, header fields, pixel repetition).  Offsets, sizes and   *)
(* caps keep the values of the source.  Scores are fixed point: a score s  *)
(* of the source is the integer s * SCALE.                                 *)
(***************************************************************************)
EXTENDS Integers, Sequences, FiniteSets, TLC

(***************************************************************************)
(* Bounds of the model.                                                    *)
(***************************************************************************)
\* at most this many pattern occurrences in one file
MaxMarks == 3

\* fixed point unit of the scores: 1.0 is SCALE
SCALE == 10000

KiB == 1024

(***************************************************************************)
(* Signature tables.                                                       *)
(***************************************************************************)
\* part_000 / part_001 / part_002: FILE_SIGNATURES, in insertion order
SigOrder_compact == <<"4D5A", "7F454C46", "504B0304", "52617221", "377ABCAF271C", "25504446">>

FILE_SIGNATURES_compact ==
  [s \in {SigOrder_compact[i] : i \in 1..Len(SigOrder_compact)} |->
     CASE s = "4D5A"         -> [name |-> "Windows Executable", ext |-> {"exe","dll","scr","com"}, risk |-> "CRITICAL", minSize |-> 1024]
       [] s = "7F454C46"     -> [name |-> "Linux ELF", ext |-> {"elf","so","o"}, risk |-> "CRITICAL", minSize |-> 1024]
       [] s = "504B0304"     -> [name |-> "ZIP Archive", ext |-> {"zip","jar","apk","docx","xlsx"}, risk |-> "HIGH", minSize |-> 22]
       [] s = "52617221"     -> [name |-> "RAR Archive", ext |-> {"rar"}, risk |-> "HIGH", minSize |-> 64]
       [] s = "377ABCAF271C" -> [name |-> "7-Zip", ext |-> {"7z"}, risk |-> "HIGH", minSize |-> 64]
       [] s = "25504446"     -> [name |-> "PDF Document", ext |-> {"pdf"}, risk |-> "MEDIUM", minSize |-> 100]]

\* app.js: FILE_SIGNATURES, the categories flattened in iteration order
FILE_SIGNATURES_app == <<
  [signature |-> "4D5A",             extensions |-> {"exe","dll","scr","com"}],
  [signature |-> "5A4D",             extensions |-> {"exe"}],
  [signature |-> "7F454C46",         extensions |-> {"","bin","elf","o","so"}],
  [signature |-> "504B0304",         extensions |-> {"zip","jar","apk","docx","xlsx"}],
  [signature |-> "504B0506",         extensions |-> {"zip"}],
  [signature |-> "52617221",         extensions |-> {"rar"}],
  [signature |-> "377ABCAF271C",     extensions |-> {"7z"}],
  [signature |-> "FFD8FFDB",         extensions |-> {"jpg","jpeg"}],
  [signature |-> "89504E470D0A1A0A", extensions |-> {"png"}],
  [signature |-> "474946383761",     extensions |-> {"gif"}],
  [signature |-> "474946383961",     extensions |-> {"gif"}],
  [signature |-> "424D",             extensions |-> {"bmp"}],
  [signature |-> "25504446",         extensions |-> {"pdf"}],
  [signature |-> "D0CF11E0A1B11AE1", extensions |-> {"doc","xls","ppt"}],
  [signature |-> "52494646",         extensions |-> {"wav","avi"}],
  [signature |-> "4F676753",         extensions |-> {"ogg","oga","ogv"}] >>

\* part_003: simpleSignatures of analyzeFileSignaturesRobust, in insertion order
simpleSignatures == <<
  [signature |-> "4D5A",     ext |-> {"exe"}, risk |-> "CRITICAL"],
  [signature |-> "7F454C46", ext |-> {"elf"}, risk |-> "CRITICAL"],
  [signature |-> "504B0304", ext |-> {"zip"}, risk |-> "HIGH"],
  [signature |-> "52617221", ext |-> {"rar"}, risk |-> "HIGH"],
  [signature |-> "25504446", ext |-> {"pdf"}, risk |-> "MEDIUM"],
  [signature |-> "FFD8FF",   ext |-> {"jpg"}, risk |-> "LOW"],
  [signature |-> "89504E47", ext |-> {"png"}, risk |-> "LOW"] >>

\* IMAGE_TERMINATION_BYTES (the same table in every build; bmp has none)
IMAGE_TERMINATION_BYTES == [jpeg |-> "FFD9", png |-> "49454E44AE426082", gif |-> "003B"]

\* the 12 bytes pngEndOffset compares: a zero length, "IEND" and the CRC
PNG_IEND_CHUNK == "0000000049454E44AE426082"

\* DETECTION_MODES: thresholds as fixed point, minimumFileSize of app.js
DETECTION_MODES ==
  [conservative |-> [confidenceThreshold |-> 8000, minimumFileSize |-> 1024, contextValidation |-> TRUE],
   balanced     |-> [confidenceThreshold |-> 6000, minimumFileSize |-> 512,  contextValidation |-> TRUE],
   aggressive   |-> [confidenceThreshold |-> 4000, minimumFileSize |-> 100,  contextValidation |-> FALSE]]

Modes == {"conservative", "balanced", "aggressive"}

(***************************************************************************)
(* Files.                                                                  *)
(***************************************************************************)
\* byte offsets at which a pattern may start in a generated file: in the
\* header, right behind a two-byte pattern at 40, past the first 64 KiB and
\* past the first 256 KiB
Positions == {40, 42, 70000, 300000}

\* patterns placed in generated files: two signatures and two terminators
MarkPatterns == {"7F454C46", "504B0304", "FFD9", "003B"}

FileLengths == {3000, 70010, 12000000}

FileTypes == {"image/jpeg", "image/gif"}

\* Content statistics of a file, as the scoring code measures them:
\*   nulls    share of zero bytes in the data after a terminator (per SCALE)
\*   entropy  normalised Shannon entropy of a sampled window (per SCALE)
\*   hdr      number of header checks of the structure validator that pass
\*            after the magic bytes (3 = all of them)
\*   rep3, rep4  equal neighbouring 3- and 4-byte windows around an offset
Profiles ==
  { [nulls |-> 9500, entropy |-> 1000, hdr |-> 0, rep3 |-> 31, rep4 |-> 22],
    [nulls |-> 8000, entropy |-> 3500, hdr |-> 1, rep3 |-> 12, rep4 |-> 3],
    [nulls |-> 0,    entropy |-> 9000, hdr |-> 3, rep3 |-> 0,  rep4 |-> 0] }

\* hex digits of a pattern (two per byte)
HexLen(pat) == Len(pat)

\* an occurrence: pattern pat starts at hex digit `at` of the file's hex text
Mark(pat, pos) == [pat |-> pat, at |-> 2 * pos]

MarkSets ==
  { ms \in SUBSET { Mark(p, pos) : p \in MarkPatterns, pos \in Positions } :
      /\ Cardinality(ms) <= MaxMarks
      /\ \A a, b \in ms : a = b \/ a.at + HexLen(a.pat) <= b.at \/ b.at + HexLen(b.pat) <= a.at }

Files ==
  { [type |-> t, len |-> l, occ |-> ms, prof |-> pr] :
      t \in FileTypes, l \in FileLengths, ms \in MarkSets, pr \in Profiles }

WellFormed(f) == \A m \in f.occ : m.at + HexLen(m.pat) <= 2 * f.len

(***************************************************************************)
(* Searching the hex text.  The builds convert bytes to two hex digits per *)
(* byte and bring the text and the patterns to one letter case before      *)
(* String.indexOf; the model writes both in upper case.                    *)
(***************************************************************************)
Min(a, b) == IF a <= b THEN a ELSE b
Max(a, b) == IF a >= b THEN a ELSE b
SetMin(S) == CHOOSE x \in S : \A y \in S : x <= y
SetMax(S) == CHOOSE x \in S : \A y \in S : x >= y

\* <<p, q, d>>: pattern q is the part of pattern p that starts at hex digit d
Contains ==
  { <<"0000000049454E44AE426082", "49454E44AE426082", 8>>,
    <<"003B", "3B", 2>>,
    <<"FFD8FFDB", "FFD8FF", 0>>,
    <<"89504E470D0A1A0A", "89504E47", 0>> }

\* hex digit indices of the file at which pattern q starts
Occurrences(f, q) ==
  { m.at : m \in { x \in f.occ : x.pat = q } }
    \cup UNION { { m.at + c[3] : m \in { x \in f.occ : x.pat = c[1] } } :
                  c \in { cc \in Contains : cc[2] = q } }

\* hex.indexOf(q, from) where hex is the text of bytes [lo, hi) of the file:
\* the index relative to the start of that text, or -1
IndexOf(f, q, lo, hi, from) ==
  LET c == { a - 2 * lo : a \in { x \in Occurrences(f, q) :
                                    x >= 2 * lo + from /\ x + HexLen(q) <= 2 * hi } }
  IN IF c = {} THEN -1 ELSE SetMin(c)

\* (x / 2) | 0 and Math.floor(x / 2) for x >= 0
Half(x) == x \div 2

RECURSIVE BitOr(_, _)
\* a | b on non-negative integers
BitOr(a, b) ==
  IF a = 0 THEN b
  ELSE IF b = 0 THEN a
  ELSE (IF a % 2 = 1 \/ b % 2 = 1 THEN 1 ELSE 0) + 2 * BitOr(a \div 2, b \div 2)

(***************************************************************************)
(* Terminator location of part_000 and part_001.                           *)
(***************************************************************************)
\* scans i = len-2 .. 1 for u8[i-1] = FF, u8[i] = D9 and returns i + 1
jpegEndOffset(f) ==
  LET c == { a \div 2 : a \in { x \in Occurrences(f, "FFD9") :
                                  x % 2 = 0 /\ (x \div 2) + 1 <= f.len - 2 } }
  IN IF c = {} THEN -1 ELSE SetMax(c) + 2

\* first i <= len-12 where the 12 bytes of the IEND chunk start; returns i + 12
pngEndOffset(f) ==
  LET c == { a \div 2 : a \in { x \in Occurrences(f, PNG_IEND_CHUNK) :
                                  x % 2 = 0 /\ (x \div 2) + 12 <= f.len } }
  IN IF c = {} THEN -1 ELSE SetMin(c) + 12

\* u8.lastIndexOf(0x3B)
lastIndexOf3B(f) ==
  LET c == { a \div 2 : a \in { x \in Occurrences(f, "3B") : x % 2 = 0 } }
  IN IF c = {} THEN -1 ELSE SetMax(c)

\* the endOffset computed at the head of analyzeFileSignatures
endOffset(f) ==
  IF f.type = "image/jpeg" THEN jpegEndOffset(f)
  ELSE IF f.type = "image/png" THEN pngEndOffset(f)
  ELSE IF f.type = "image/gif" THEN lastIndexOf3B(f) + 1
  ELSE -1

(***************************************************************************)
(* Helpers of part_000 / part_001 / part_002.                              *)
(***************************************************************************)
\* checkForKnownSignatures(window) for the window that starts at byte start
checkForKnownSignatures_compact(f, start) ==
  LET n == f.len - start
  IN IF n < 4 THEN FALSE
     ELSE \E s \in {"4D5A", "504B0304", "52617221", "377ABCAF271C", "25504446"} :
            IndexOf(f, s, start, start + Min(4096, n), 0) # -1

\* analyzeLocalEntropy: H/8 of the sampled bytes, 0 for no data
analyzeLocalEntropy_compact(f, start, length) ==
  IF f.len = 0 \/ start >= f.len THEN 0 ELSE f.prof.entropy

\* validateAppendedData(window) for the window that starts at byte start
validateAppendedData_compact(f, start) ==
  IF f.len - start <= 0
  THEN [confidence |-> 0, riskLevel |-> "LOW"]
  ELSE LET nullRatio == f.prof.nulls
           base   == IF nullRatio > 9000 THEN 1000
                     ELSE IF nullRatio > 7000 THEN 3000 ELSE 6000
           ent    == analyzeLocalEntropy_compact(f, start, Min(4096, f.len - start))
           hasSig == checkForKnownSignatures_compact(f, start)
           score  == base + (IF ent > 5000 THEN 3000 ELSE 0) + (IF hasSig THEN 4000 ELSE 0)
       IN [confidence |-> Min(SCALE, score),
           riskLevel  |-> IF hasSig THEN "HIGH" ELSE IF ent > 5000 THEN "MEDIUM" ELSE "LOW"]

\* a finding; builds without a confidence field carry NoConfidence
NoConfidence == -1

Finding(sig, off, risk, conf, ext) ==
  [signature |-> sig, offset |-> off, risk |-> risk, confidence |-> conf, extensions |-> ext]

RECURSIVE Flatten(_)
\* concatenation of a sequence of sequences
Flatten(ss) == IF ss = <<>> THEN <<>> ELSE Head(ss) \o Flatten(Tail(ss))

RECURSIVE Dedup(_, _)
\* hits.filter with the `seen` set: keeps the first hit of each signature:offset
Dedup(hits, seen) ==
  IF hits = <<>> THEN <<>>
  ELSE LET k == <<Head(hits).signature, Head(hits).offset>>
       IN IF k \in seen THEN Dedup(Tail(hits), seen)
          ELSE <<Head(hits)>> \o Dedup(Tail(hits), seen \cup {k})

\* the signature loop over one slab: first occurrence of each signature only
ScanSlab_compact(f, start, budget) ==
  LET hi == Min(f.len, start + budget)
      hit(s) == LET idx == IndexOf(f, s, start, hi, 0)
                    byteOffset == start + Half(idx)
                    meta == FILE_SIGNATURES_compact[s]
                IN IF idx = -1 \/ f.len - byteOffset < meta.minSize THEN <<>>
                   ELSE <<Finding(s, byteOffset, meta.risk, NoConfidence, meta.ext)>>
  IN Flatten([i \in 1..Len(SigOrder_compact) |-> hit(SigOrder_compact[i])])

\* exeFound ? 'critical' : (fileSignatures.length ? 'high' : 'safe')
ThreatLevel_compact(sigs) ==
  IF \E i \in 1..Len(sigs) : "exe" \in sigs[i].extensions THEN "critical"
  ELSE IF Len(sigs) > 0 THEN "high" ELSE "safe"

(***************************************************************************)
(* analyzeFileSignatures of part_001.  The result record holds what the    *)
(* function stores (fileSignatures, threatLevel) and, for the properties,  *)
(* the regions it chose and the number of bytes it converted to hex.       *)
(***************************************************************************)
Region(start, format) == [start |-> start, format |-> format]

\* regions.push({start: endOffset, format: 'appended'}) under its guard
AppendedRegions(f) ==
  LET e == endOffset(f)
  IN IF e > -1 /\ e < f.len - 4096 THEN <<Region(e, "appended")>> ELSE <<>>

\* hasSig && v.confidence >= threshold && window.length >= 4096
StrongAppended(f, start, threshold) ==
  /\ checkForKnownSignatures_compact(f, start)
  /\ validateAppendedData_compact(f, start).confidence >= threshold
  /\ f.len - start >= 4096

\* bytes converted to hex by the two checkForKnownSignatures calls made
\* while an appended window is validated
AppendedCheckBytes(f, start) ==
  IF f.len - start < 4 THEN 0 ELSE 2 * Min(4096, f.len - start)

regions_part001(f, ds) ==
  LET r == AppendedRegions(f)
  IN IF r # <<>> THEN r
     ELSE IF ds.mode = "balanced" THEN <<Region(0, "limited")>>
     ELSE IF ds.mode = "aggressive" THEN <<Region(0, "full")>>
     ELSE <<>>

budget_part001(f, region) ==
  IF region.format = "limited" THEN 64 * KiB
  ELSE Min(f.len - region.start, 256 * KiB)

\* the regions whose slab is converted and searched
scanned_part001(f, ds) ==
  SelectSeq(regions_part001(f, ds),
            LAMBDA r : r.format # "appended" \/ StrongAppended(f, r.start, ds.confidenceThreshold))

RECURSIVE SumSeq(_)
SumSeq(s) == IF s = <<>> THEN 0 ELSE Head(s) + SumSeq(Tail(s))

analyzeFileSignatures_part001(f, ds) ==
  LET regions == regions_part001(f, ds)
      scanned == scanned_part001(f, ds)
      hits == Flatten([i \in 1..Len(scanned) |->
                 ScanSlab_compact(f, scanned[i].start, budget_part001(f, scanned[i]))])
      sigs == Dedup(hits, {})
  IN [fileSignatures |-> sigs,
      threatLevel    |-> ThreatLevel_compact(sigs),
      regions        |-> regions,
      hexBytes       |-> SumSeq([i \in 1..Len(regions) |->
                            IF regions[i].format = "appended"
                            THEN AppendedCheckBytes(f, regions[i].start) ELSE 0])
                         + SumSeq([i \in 1..Len(scanned) |->
                            Min(f.len - scanned[i].start, budget_part001(f, scanned[i]))])]

(***************************************************************************)
(* analyzeFileSignatures of part_000.                                      *)
(***************************************************************************)
regions_part000(f, ds) ==
  AppendedRegions(f)
    \o (IF ds.mode = "balanced" THEN <<Region(64 * KiB, "full_skip_header")>> ELSE <<>>)
    \o (IF ds.mode = "aggressive" THEN <<Region(0, "full")>> ELSE <<>>)

budget_part000(f, region) == Min(f.len - region.start, 256 * KiB)

scanned_part000(f, ds) ==
  SelectSeq(regions_part000(f, ds),
            LAMBDA r : /\ r.start < f.len
                       /\ r.format # "appended" \/ StrongAppended(f, r.start, ds.confidenceThreshold))

analyzeFileSignatures_part000(f, ds) ==
  LET regions == regions_part000(f, ds)
      scanned == scanned_part000(f, ds)
      hits == Flatten([i \in 1..Len(scanned) |->
                 ScanSlab_compact(f, scanned[i].start, budget_part000(f, scanned[i]))])
      sigs == Dedup(hits, {})
  IN [fileSignatures |-> sigs,
      threatLevel    |-> ThreatLevel_compact(sigs),
      regions        |-> regions,
      hexBytes       |-> SumSeq([i \in 1..Len(regions) |->
                            IF regions[i].format = "appended" /\ regions[i].start < f.len
                            THEN AppendedCheckBytes(f, regions[i].start) ELSE 0])
                         + SumSeq([i \in 1..Len(scanned) |-> budget_part000(f, scanned[i])])]

(***************************************************************************)
(* part_002: findImageEndOffsets and analyzeFileSignatures.                *)
(***************************************************************************)
RECURSIVE indexOfLoop(_, _, _, _, _)
\* while (idx !== -1) { ...; idx = hex.indexOf(q, idx + q.length) }
indexOfLoop(f, q, lo, hi, idx) ==
  IF idx = -1 THEN <<>>
  ELSE <<idx>> \o indexOfLoop(f, q, lo, hi, IndexOf(f, q, lo, hi, idx + HexLen(q)))

\* the indices visited by  idx = hex.indexOf(q); while (idx !== -1) { ... }
AllIndexOf(f, q, lo, hi, from) == indexOfLoop(f, q, lo, hi, IndexOf(f, q, lo, hi, from))

RECURSIVE InsertByOffset(_, _)
InsertByOffset(x, s) ==
  IF s = <<>> THEN <<x>>
  ELSE IF x.offset < Head(s).offset THEN <<x>> \o s
  ELSE <<Head(s)>> \o InsertByOffset(x, Tail(s))

RECURSIVE SortByOffset(_)
\* Array.prototype.sort((a, b) => a.offset - b.offset), a stable sort
SortByOffset(s) ==
  IF s = <<>> THEN <<>>
  ELSE InsertByOffset(s[Len(s)], SortByOffset(SubSeq(s, 1, Len(s) - 1)))

\* (idx/2)|0 + (t.length/2)|0 : + binds tighter than |, so the value is
\* (idx/2) | (0 + t.length/2) | 0
EndOffsetExpr_part002(idx, t) == BitOr(Half(idx), HexLen(t) \div 2)

findImageEndOffsets(f) ==
  LET hi == Min(f.len, 4 * KiB * KiB)
      ends(fmt, t) == LET ix == AllIndexOf(f, t, 0, hi, 0)
                      IN [i \in 1..Len(ix) |->
                            [format |-> fmt, offset |-> EndOffsetExpr_part002(ix[i], t)]]
  IN SortByOffset(ends("jpeg", IMAGE_TERMINATION_BYTES.jpeg)
                    \o ends("png", IMAGE_TERMINATION_BYTES.png)
                    \o ends("gif", IMAGE_TERMINATION_BYTES.gif))

regions_part002(f, ds) ==
  LET ends == findImageEndOffsets(f)
      afterEndRegions ==
        LET sel == SelectSeq(ends, LAMBDA e : e.offset < f.len - 1000)
        IN [i \in 1..Len(sel) |-> Region(sel[i].offset, sel[i].format)]
  IN IF ds.mode = "aggressive" \/ afterEndRegions = <<>>
     THEN <<Region(0, "full")>> ELSE afterEndRegions

scanned_part002(f, ds) ==
  SelectSeq(regions_part002(f, ds),
            LAMBDA r : \/ r.format = "full"
                       \/ validateAppendedData_compact(f, r.start).confidence >= ds.confidenceThreshold)

\* the result of the scan over its regions: the findings are pushed onto
\* analysisResults.fileSignatures as they are found
scanResult_part002(f, regions, scanned, before) ==
  [fileSignatures |-> before \o Flatten([i \in 1..Len(scanned) |->
                         ScanSlab_compact(f, scanned[i].start, 256 * KiB)]),
   threatLevel    |-> ThreatLevel_compact(before \o Flatten([i \in 1..Len(scanned) |->
                         ScanSlab_compact(f, scanned[i].start, 256 * KiB)])),
   regions        |-> regions,
   hexBytes       |-> Min(f.len, 4 * KiB * KiB)
                      + SumSeq([i \in 1..Len(regions) |->
                           IF regions[i].format # "full" /\ f.len - regions[i].start >= 4
                           THEN Min(4096, f.len - regions[i].start) ELSE 0])
                      + SumSeq([i \in 1..Len(scanned) |->
                           Min(f.len - scanned[i].start, 256 * KiB)])]

analyzeFileSignatures_part002(f, ds, before) ==
  scanResult_part002(f, regions_part002(f, ds), scanned_part002(f, ds), before)

(***************************************************************************)
(* app.js: terminators, context, structure, scoring.                       *)
(***************************************************************************)
\* every occurrence of every terminator, at floor(index/2) + floor(length/2)
findImageTerminationPoints(f) ==
  LET pts(fmt, t) == LET ix == AllIndexOf(f, t, 0, f.len, 0)
                     IN [i \in 1..Len(ix) |->
                           [format |-> fmt, offset |-> Half(ix[i]) + Half(HexLen(t))]]
  IN SortByOffset(pts("jpeg", IMAGE_TERMINATION_BYTES.jpeg)
                    \o pts("png", IMAGE_TERMINATION_BYTES.png)
                    \o pts("gif", IMAGE_TERMINATION_BYTES.gif))

\* repetition rate of equal neighbouring stride-byte windows in the 100 bytes
\* around the offset; a rate counts when it exceeds 0.3
checkForRegularPatterns(f, offset) ==
  IF offset < 100 \/ offset + 100 > f.len THEN 0
  ELSE LET rate3 == (f.prof.rep3 * 3 * SCALE) \div 100
           rate4 == (f.prof.rep4 * 4 * SCALE) \div 100
           s3 == IF rate3 > 3000 THEN rate3 ELSE 0
       IN IF rate4 > 3000 THEN Max(s3, rate4) ELSE s3

validateContext(f, offset, imageTerminationPoints) ==
  IF \E i \in 1..Len(imageTerminationPoints) : offset > imageTerminationPoints[i].offset
  THEN SCALE
  ELSE IF offset < 1024 THEN 8000
  ELSE SCALE - checkForRegularPatterns(f, offset)

\* staged result for the data that starts at a match of "4D5A"
validatePEExecutable(dataLen, hdr) ==
  IF dataLen < 64 THEN 0
  ELSE IF hdr = 0 THEN 1000
  ELSE IF hdr = 1 THEN 3000
  ELSE IF hdr = 2 THEN 5000
  ELSE 9000

\* staged result for the data that starts at a match of a "504B...." signature
validateZipStructure(dataLen, signature, hdr) ==
  IF dataLen < 30 THEN 0
  ELSE IF signature # "504B0304" THEN 0
  ELSE IF hdr = 0 THEN 2000
  ELSE IF hdr = 1 THEN 3000
  ELSE IF hdr = 2 THEN 4000
  ELSE 8000

\* staged result for the data that starts at a match of "25504446"
validatePDFStructure(dataLen, hdr) ==
  IF dataLen < 8 THEN 0
  ELSE IF hdr = 0 THEN 0
  ELSE IF hdr < 3 THEN 3000
  ELSE 7000

StartsWith504B(signature) == signature \in {"504B0304", "504B0506"}

validateFileStructure(f, offset, signatureInfo) ==
  IF signatureInfo.signature = "4D5A" THEN validatePEExecutable(f.len - offset, f.prof.hdr)
  ELSE IF StartsWith504B(signatureInfo.signature)
       THEN validateZipStructure(f.len - offset, signatureInfo.signature, f.prof.hdr)
  ELSE IF signatureInfo.signature = "25504446" THEN validatePDFStructure(f.len - offset, f.prof.hdr)
  ELSE 5000

getMinimumFileSize(signatureInfo, ds) ==
  LET currentMode == DETECTION_MODES[ds.mode]
  IN IF signatureInfo.extensions \cap {"exe", "dll"} # {} THEN Max(1024, currentMode.minimumFileSize)
     ELSE IF "zip" \in signatureInfo.extensions THEN Max(22, currentMode.minimumFileSize)
     ELSE IF "pdf" \in signatureInfo.extensions THEN Max(100, currentMode.minimumFileSize)
     ELSE currentMode.minimumFileSize

\* entropy / 8.0 of the bytes sampled at the offset
analyzeLocalEntropy(f, offset, length) == f.prof.entropy

RiskOfExtensions(extensions) ==
  IF extensions \cap {"exe", "dll", "scr", "com"} # {} THEN "CRITICAL"
  ELSE IF extensions \cap {"zip", "rar", "7z"} # {} THEN "HIGH"
  ELSE IF extensions \cap {"pdf", "doc", "docx"} # {} THEN "MEDIUM"
  ELSE "LOW"

validateSignatureDetection(f, offset, signatureInfo, imageTerminationPoints, ds) ==
  LET base == 2000
      context == IF ds.contextValidation
                 THEN (validateContext(f, offset, imageTerminationPoints) * 3) \div 10
                 ELSE 3000
      structure == IF ds.mode \in {"conservative", "balanced"}
                   THEN (validateFileStructure(f, offset, signatureInfo) * 25) \div 100
                   ELSE 2500
      remainingBytes == f.len - offset
      size == IF remainingBytes >= getMinimumFileSize(signatureInfo, ds) THEN 1500 ELSE 0
      entropy == analyzeLocalEntropy(f, offset, Min(1024, remainingBytes)) \div 10
      confidence == Min(SCALE, base + context + structure + size + entropy)
  IN [isValid    |-> confidence >= ds.confidenceThreshold,
      confidence |-> confidence,
      riskLevel  |-> RiskOfExtensions(signatureInfo.extensions)]

\* checkForKnownSignatures of app.js: the hex of the first 100 bytes of data
checkForKnownSignatures(f, start) ==
  \E s \in {"4D5A", "504B0304", "52617221", "377ABCAF271C", "25504446",
            "FFD8FF", "89504E47", "474946"} :
     IndexOf(f, s, start, Min(f.len, start + 100), 0) # -1

\* the score before Math.min(1.0, score)
AppendedScore(f, start) ==
  LET nullRatio == f.prof.nulls
      base == IF nullRatio > 9000 THEN 1000 ELSE IF nullRatio > 7000 THEN 3000 ELSE 6000
      entropy == analyzeLocalEntropy(f, start, Min(1024, f.len - start))
  IN base + (IF entropy > 5000 THEN 3000 ELSE 0)
          + (IF checkForKnownSignatures(f, start) THEN 4000 ELSE 0)

\* validateAppendedData without the cap Math.min(1.0, score)
validateAppendedData_uncapped(f, start) ==
  [confidence |-> AppendedScore(f, start),
   riskLevel  |-> IF checkForKnownSignatures(f, start) THEN "HIGH" ELSE "LOW"]

validateAppendedData(f, start) ==
  [confidence |-> Min(SCALE, AppendedScore(f, start)),
   riskLevel  |-> IF checkForKnownSignatures(f, start) THEN "HIGH" ELSE "LOW"]

\* the findings checkAppendedFiles pushes, one termination point after the other
checkAppendedFiles(f, imageTerminationPoints, ds) ==
  LET minDataSize == IF ds.mode = "conservative" THEN 1000 ELSE 100
      one(tp) == IF /\ tp.offset < f.len - 100
                    /\ f.len - tp.offset >= minDataSize
                    /\ validateAppendedData(f, tp.offset).confidence >= ds.confidenceThreshold
                 THEN <<Finding("APPENDED_DATA", tp.offset,
                                validateAppendedData(f, tp.offset).riskLevel,
                                validateAppendedData(f, tp.offset).confidence, {"unknown"})>>
                 ELSE <<>>
  IN Flatten([i \in 1..Len(imageTerminationPoints) |-> one(imageTerminationPoints[i])])

\* the forEach over the categories and their signatures, every occurrence
DetectSignatures_app(f, ds) ==
  LET tps == findImageTerminationPoints(f)
      perSig(sig) ==
        LET ix == AllIndexOf(f, sig.signature, 0, f.len, 0)
            one(index) ==
              \* index / 2, for the even indices of the files whose patterns
              \* start at a byte
              LET byteOffset == Half(index)
                  v == validateSignatureDetection(f, byteOffset, sig, tps, ds)
              IN IF v.isValid /\ v.confidence >= ds.confidenceThreshold
                 THEN <<Finding(sig.signature, byteOffset, v.riskLevel, v.confidence, sig.extensions)>>
                 ELSE <<>>
        IN Flatten([i \in 1..Len(ix) |-> one(ix[i])])
  IN Flatten([i \in 1..Len(FILE_SIGNATURES_app) |-> perSig(FILE_SIGNATURES_app[i])])

RECURSIVE InsertByConfidence(_, _)
InsertByConfidence(x, s) ==
  IF s = <<>> THEN <<x>>
  ELSE IF x.confidence > Head(s).confidence THEN <<x>> \o s
  ELSE <<Head(s)>> \o InsertByConfidence(x, Tail(s))

RECURSIVE SortByConfidence(_)
\* sort((a, b) => b.confidence - a.confidence), a stable sort
SortByConfidence(s) ==
  IF s = <<>> THEN <<>>
  ELSE InsertByConfidence(s[Len(s)], SortByConfidence(SubSeq(s, 1, Len(s) - 1)))

\* .filter(sig => sig.confidence >= threshold).sort(...)
filteredSignatures(detected, ds) ==
  SortByConfidence(SelectSeq(detected, LAMBDA x : x.confidence >= ds.confidenceThreshold))

\* updateThreatLevel with 'medium' for exactly two findings above 0.8
updateThreatLevel_exactlyTwo(sigs) ==
  LET S == {sigs[i] : i \in 1..Len(sigs)}
  IN IF sigs = <<>> THEN "safe"
     ELSE IF \E x \in S : x.risk = "CRITICAL" /\ x.confidence > 7000 THEN "critical"
     ELSE IF \E x \in S : x.risk = "HIGH" /\ x.confidence > 7000 THEN "high"
     ELSE IF Len(SelectSeq(sigs, LAMBDA x : x.confidence > 8000)) = 2 THEN "medium"
     ELSE IF \E x \in S : x.confidence > 6000 THEN "low"
     ELSE "safe"

updateThreatLevel(sigs) ==
  LET S == {sigs[i] : i \in 1..Len(sigs)}
  IN IF sigs = <<>> THEN "safe"
     ELSE IF \E x \in S : x.risk = "CRITICAL" /\ x.confidence > 7000 THEN "critical"
     ELSE IF \E x \in S : x.risk = "HIGH" /\ x.confidence > 7000 THEN "high"
     ELSE IF Len(SelectSeq(sigs, LAMBDA x : x.confidence > 8000)) > 1 THEN "medium"
     ELSE IF \E x \in S : x.confidence > 6000 THEN "low"
     ELSE "safe"

\* bytes converted to hex by analyzeFileSignatures of app.js: the whole file,
\* and the first 100 bytes of the data after each validated termination point
hexBytes_app(f, ds) ==
  LET tps == findImageTerminationPoints(f)
      minDataSize == IF ds.mode = "conservative" THEN 1000 ELSE 100
  IN f.len + SumSeq([i \in 1..Len(tps) |->
               IF tps[i].offset < f.len - 100 /\ f.len - tps[i].offset >= minDataSize
               THEN Min(100, f.len - tps[i].offset) ELSE 0])

(***************************************************************************)
(* part_003: the robust scanner.                                           *)
(***************************************************************************)
\* Math.min(uint8Array.length, 10 * 1024 * 1024)
maxScanSize(f) == Min(f.len, 10 * KiB * KiB)

\* the first occurrence of each terminator in the scanned hex text
findImageTerminationSimple(f) ==
  LET one(fmt, t, add) == LET idx == IndexOf(f, t, 0, maxScanSize(f), 0)
                          IN IF idx = -1 THEN <<>>
                             ELSE <<[format |-> fmt, offset |-> Half(idx) + add]>>
  IN SortByOffset(one("jpeg", "FFD9", 2) \o one("png", "49454E44AE426082", 8)
                    \o one("gif", "003B", 2))

validateSignatureSimple(f, offset, signatureInfo, imageEnds) ==
  LET remainingBytes == f.len - offset
      minSize == IF signatureInfo.risk = "CRITICAL" THEN 512 ELSE 100
  IN IF remainingBytes < minSize THEN FALSE
     ELSE IF offset < 100 /\ signatureInfo.risk = "LOW" THEN FALSE
     ELSE TRUE

\* nonNullRatio > 0.1 && normalizedEntropy > 0.3 over the first 1000 bytes
hasSignificantData(f, start) ==
  /\ SCALE - f.prof.nulls > 1000
  /\ f.prof.entropy > 3000

checkAppendedFilesSimple(f, imageEnds) ==
  LET one(end) == IF end.offset < f.len - 1000 /\ hasSignificantData(f, end.offset)
                  THEN <<Finding("APPENDED_DATA", end.offset, "MEDIUM", 7000, {"unknown"})>>
                  ELSE <<>>
  IN Flatten([i \in 1..Len(imageEnds) |-> one(imageEnds[i])])

updateThreatLevelSimple(signatures) ==
  LET count(r) == Len(SelectSeq(signatures, LAMBDA x : x.risk = r))
  IN IF signatures = <<>> THEN "safe"
     ELSE IF count("CRITICAL") > 0 THEN "critical"
     ELSE IF count("HIGH") > 1 THEN "high"
     ELSE IF count("HIGH") > 0 \/ count("MEDIUM") > 2 THEN "medium"
     ELSE IF count("MEDIUM") > 0 THEN "low"
     ELSE "safe"

analyzeFileSignaturesRobust(f) ==
  LET imageEnds == findImageTerminationSimple(f)
      perSig(info) ==
        LET all == AllIndexOf(f, info.signature, 0, maxScanSize(f), 0)
            ix  == SubSeq(all, 1, Min(10, Len(all)))
            one(index) ==
              IF validateSignatureSimple(f, Half(index), info, imageEnds)
              THEN <<Finding(info.signature, Half(index), info.risk, 8000, info.ext)>>
              ELSE <<>>
        IN Flatten([i \in 1..Len(ix) |-> one(ix[i])])
      detectedSignatures ==
        Flatten([i \in 1..Len(simpleSignatures) |-> perSig(simpleSignatures[i])])
          \o checkAppendedFilesSimple(f, imageEnds)
  IN [fileSignatures |-> detectedSignatures,
      threatLevel    |-> updateThreatLevelSimple(detectedSignatures),
      hexBytes       |-> maxScanSize(f)]

\* performSimpleChiSquareTest on zeros/ones counts of the sampled LSBs:
\* pValue is 0.05 or 0.5 and suspicious is pValue < 0.05
performSimpleChiSquareTest(zeros, ones) ==
  LET total == zeros + ones
      \* chiSquare > 3.841 with chiSquare = (zeros - ones)^2 / total
      over == total > 0 /\ (zeros - ones) * (zeros - ones) > (3841 * total) \div 1000
      pValue == IF over THEN 50 ELSE 500
  IN [suspicious |-> pValue < 50]

\* performSimpleSamplePairsAnalysis on its two counters
performSimpleSamplePairsAnalysis(pairs, regularPairs) ==
  [suspicious |-> pairs > 100 /\ (10 * regularPairs < 3 * pairs \/ 10 * regularPairs > 7 * pairs)]

(***************************************************************************)
(* app.js: the two LSB tests, on the counters their loops accumulate over  *)
(* the decoded pixels.  An image is the record of those counters:          *)
(*   n            pixels                                                   *)
(*   zr, zg, zb   pixels whose R, G, B least significant bit is 0          *)
(*   pairs, regularPairs   the counters of the sample-pairs loop           *)
(***************************************************************************)
Images ==
  { [n |-> 400, zr |-> 200, zg |-> 200, zb |-> 200, pairs |-> 300, regularPairs |-> 150],
    [n |-> 400, zr |-> 400, zg |-> 400, zb |-> 400, pairs |-> 300, regularPairs |-> 300] }

\* chiSquare = sum over the six buckets of (observed - n/2)^2 / (n/2);
\* pValue = 1 - 1/(1 + exp(-sqrt(2 chiSquare / 5))) < 0.05  iff  chiSquare > 21.6743
performChiSquareTest(img) ==
  LET d(z) == (2 * z - img.n) * (2 * z - img.n)
  IN [suspicious |-> img.n > 0 /\ d(img.zr) + d(img.zg) + d(img.zb) > (216743 * img.n) \div 10000]

\* ratio = pairs > 0 ? regularPairs / pairs : 0; suspicious = ratio < 0.4 || ratio > 0.6
performSamplePairsAnalysis(img) ==
  [suspicious |-> IF img.pairs > 0
                  THEN 10 * img.regularPairs < 4 * img.pairs \/ 10 * img.regularPairs > 6 * img.pairs
                  ELSE TRUE]

(***************************************************************************)
(* The state machine: one build of the page, one analysis run at a time.   *)
(***************************************************************************)
VARIABLES
  build,              \* which build of the page is loaded
  detectionSettings,  \* {mode, confidenceThreshold, contextValidation}
  currentFile,        \* the submitted file
  analysisResults,    \* {fileSignatures, threatLevel, lsbAnalysis}
  detectedSignatures, \* app.js: local of the suspended analyzeFileSignatures
  pc,                 \* position of the run
  runSettings,        \* history: the settings the signature scan read
  scanRegions,        \* history: the regions the signature scan chose
  hexBytes,           \* history: bytes converted to hex text by the run
  currentImageBinary, \* the file whose bytes the page keeps (NoFile: null)
  prior,              \* the file of an earlier run still awaiting its bytes
  imgPending,         \* part_003: a timed-out pixel step's onload is still attached
  message,            \* history: the text written into the decoded image
  pixels,             \* imageData: the RGBA bytes of the decoded image
  extractedTexts,     \* what extractLSBText produced
  args,               \* the function last called on its own, with its arguments
  result              \* what that call returned

\* the state of the text extraction and of the calls of single functions
xvars == <<message, pixels, extractedTexts, args, result>>

vars == <<build, detectionSettings, currentFile, analysisResults, detectedSignatures,
          pc, runSettings, scanRegions, hexBytes, currentImageBinary, prior, imgPending,
          xvars>>

Builds == {"app", "part000", "part001", "part002", "part003"}

NoFile == [type |-> "", len |-> 0, occ |-> {}, prof |-> [nulls |-> 0, entropy |-> 0, hdr |-> 0, rep3 |-> 0, rep4 |-> 0]]

NoLSB == [state |-> "empty", chiSquare |-> FALSE, samplePairs |-> FALSE]

SettingsOf(m) ==
  [mode |-> m,
   confidenceThreshold |-> DETECTION_MODES[m].confidenceThreshold,
   contextValidation   |-> DETECTION_MODES[m].contextValidation]

\* the object literal assigned to analysisResults when a file is submitted
FreshResults ==
  [fileSignatures |-> <<>>, threatLevel |-> "safe", lsbAnalysis |-> NoLSB,
   analysisErrors |-> <<>>]

\* analysisResults = {} of app.js and part_003: no field is defined
EmptyResults ==
  [fileSignatures |-> <<>>, threatLevel |-> "undefined", lsbAnalysis |-> NoLSB,
   analysisErrors |-> <<>>]

\* what part_000..part_002 scan: the bytes kept in currentImageBinary, read
\* under the MIME type of currentFile
Stored(u8, file) == [u8 EXCEPT !.type = file.type]

\* extractedTexts before any extraction
NotExtracted == [ran |-> FALSE, texts |-> <<>>]

\* args and result while no function has been called on its own
NoCall == [fn |-> "none"]

\* the value runSettings holds while the run has not scanned yet
NoSettings == [mode |-> "none", confidenceThreshold |-> 0, contextValidation |-> FALSE]

Init ==
  /\ build \in Builds
  /\ detectionSettings = SettingsOf("conservative")
  /\ currentFile = NoFile
  /\ analysisResults = IF build = "app" THEN EmptyResults ELSE FreshResults
  /\ detectedSignatures = <<>>
  /\ pc = "idle"
  /\ runSettings = NoSettings
  /\ scanRegions = <<>>
  /\ hexBytes = 0
  /\ currentImageBinary = NoFile
  /\ prior = NoFile
  /\ imgPending = FALSE
  /\ message = <<>>
  /\ pixels = <<>>
  /\ extractedTexts = NotExtracted
  /\ args = NoCall
  /\ result = NoCall

\* the 'change' listener of the detectionMode control
ModeChange(m) ==
  /\ pc \in {"idle", "reading"}
  \* part_000 re-runs the scan when a file is loaded: ModeChange_rerun
  /\ ~(build = "part000" /\ currentFile # NoFile /\ currentImageBinary # NoFile)
  /\ detectionSettings' = SettingsOf(m)
  /\ UNCHANGED <<xvars, build, currentFile, analysisResults, detectedSignatures, pc,
                 runSettings, scanRegions, hexBytes, currentImageBinary, prior, imgPending>>

\* processFile (and, in app.js and part_003, the head of startAnalysis) up to
\* the await of the file's bytes.  A submission made while a result is
\* displayed assigns the same variables, so only the submission of the first
\* file and the one after resetAnalysis are enumerated.
processFile(file) ==
  /\ pc = "idle"
  /\ WellFormed(file)
  /\ currentFile' = file
  /\ analysisResults' = FreshResults
  /\ detectedSignatures' = <<>>
  /\ pc' = "reading"
  /\ scanRegions' = <<>>
  /\ hexBytes' = 0
  /\ runSettings' = NoSettings
  /\ UNCHANGED <<xvars, build, detectionSettings, currentImageBinary, prior, imgPending>>

StoreScan(r) ==
  /\ analysisResults' = [analysisResults EXCEPT !.fileSignatures = r.fileSignatures,
                                                !.threatLevel = r.threatLevel]
  /\ runSettings' = detectionSettings
  /\ hexBytes' = r.hexBytes

\* part_000: startAnalysis -> analyzeFileSignatures -> displayResults
startAnalysis_part000 ==
  /\ pc = "reading" /\ build = "part000"
  /\ currentImageBinary' = currentFile
  /\ LET r == analyzeFileSignatures_part000(Stored(currentFile, currentFile), detectionSettings)
     IN StoreScan(r) /\ scanRegions' = r.regions
  /\ pc' = "done"
  /\ UNCHANGED <<xvars, build, detectionSettings, currentFile, detectedSignatures, prior, imgPending>>

\* part_001: startAnalysis -> analyzeFileSignatures -> displayResults
startAnalysis_part001 ==
  /\ pc = "reading" /\ build = "part001"
  /\ currentImageBinary' = currentFile
  /\ LET r == analyzeFileSignatures_part001(Stored(currentFile, currentFile), detectionSettings)
     IN StoreScan(r) /\ scanRegions' = r.regions
  /\ pc' = "done"
  /\ UNCHANGED <<xvars, build, detectionSettings, currentFile, detectedSignatures, prior, imgPending>>

\* part_002: startAnalysis -> analyzeFileSignatures -> displayFileSignatures
startAnalysis_part002 ==
  /\ pc = "reading" /\ build = "part002"
  /\ currentImageBinary' = currentFile
  /\ LET r == analyzeFileSignatures_part002(Stored(currentFile, currentFile),
                                            detectionSettings,
                                            analysisResults.fileSignatures)
     IN StoreScan(r) /\ scanRegions' = r.regions
  /\ pc' = "done"
  /\ UNCHANGED <<xvars, build, detectionSettings, currentFile, detectedSignatures, prior, imgPending>>

\* app.js analyzeFileSignatures up to `await checkAppendedFiles(...)`:
\* the signature loop fills the local array, checkAppendedFiles pushes onto
\* analysisResults.fileSignatures
analyzeFileSignatures_scan ==
  /\ pc = "reading" /\ build = "app"
  /\ detectedSignatures' = DetectSignatures_app(currentFile, detectionSettings)
  /\ analysisResults' =
       [analysisResults EXCEPT !.fileSignatures =
          @ \o checkAppendedFiles(currentFile, findImageTerminationPoints(currentFile),
                                  detectionSettings)]
  /\ runSettings' = detectionSettings
  /\ hexBytes' = hexBytes_app(currentFile, detectionSettings)
  /\ pc' = "signatures"
  /\ currentImageBinary' = currentFile
  /\ UNCHANGED <<xvars, build, detectionSettings, currentFile, scanRegions, prior, imgPending>>

\* app.js analyzeFileSignatures after the await: filter, sort, store, updateThreatLevel
analyzeFileSignatures_store ==
  /\ pc = "signatures" /\ build = "app"
  /\ LET filtered == filteredSignatures(detectedSignatures, detectionSettings)
     IN analysisResults' = [analysisResults EXCEPT !.fileSignatures = filtered,
                                                   !.threatLevel = updateThreatLevel(filtered)]
  /\ pc' = "lsb"
  /\ UNCHANGED <<xvars, build, detectionSettings, currentFile, detectedSignatures,
                 runSettings, scanRegions, hexBytes, currentImageBinary, prior, imgPending>>

\* app.js analyzeLSB: img.onload
analyzeLSB_onload(img) ==
  /\ pc = "lsb" /\ build = "app"
  /\ LET chiSquareResult == performChiSquareTest(img)
         samplePairsResult == performSamplePairsAnalysis(img)
     IN analysisResults' =
          [analysisResults EXCEPT
             !.lsbAnalysis = [state |-> "done", chiSquare |-> chiSquareResult.suspicious,
                              samplePairs |-> samplePairsResult.suspicious],
             !.threatLevel = IF (chiSquareResult.suspicious \/ samplePairsResult.suspicious)
                                /\ @ = "safe"
                             THEN "medium" ELSE @]
  /\ pc' = "rest"
  /\ UNCHANGED <<xvars, build, detectionSettings, currentFile, detectedSignatures,
                 runSettings, scanRegions, hexBytes, currentImageBinary, prior, imgPending>>

\* part_003 analyzeFileSignaturesRobust
analyzeFileSignaturesRobust_run ==
  /\ pc = "reading" /\ build = "part003"
  /\ StoreScan(analyzeFileSignaturesRobust(currentFile))
  /\ pc' = "lsb"
  /\ currentImageBinary' = currentFile
  /\ UNCHANGED <<xvars, build, detectionSettings, currentFile, detectedSignatures, scanRegions,
                 prior, imgPending>>

\* part_003 analyzeLSBRobust: img.onload (the sample is the first 40000 bytes)
analyzeLSBRobust_onload(img) ==
  /\ pc = "lsb" /\ build = "part003"
  /\ LET zeros == img.zr + img.zg + img.zb
         chiSquareResult == performSimpleChiSquareTest(zeros, 3 * img.n - zeros)
         samplePairsResult == performSimpleSamplePairsAnalysis(img.pairs, img.regularPairs)
     IN analysisResults' =
          [analysisResults EXCEPT
             !.lsbAnalysis = [state |-> "done", chiSquare |-> chiSquareResult.suspicious,
                              samplePairs |-> samplePairsResult.suspicious]]
  /\ pc' = "rest"
  /\ UNCHANGED <<xvars, build, detectionSettings, currentFile, detectedSignatures,
                 runSettings, scanRegions, hexBytes, currentImageBinary, prior, imgPending>>

\* part_003 analyzeLSBRobust: img.onerror (clearTimeout, then the failure report)
analyzeLSBRobust_fail ==
  /\ pc = "lsb" /\ build = "part003"
  /\ analysisResults' = [analysisResults EXCEPT
                           !.lsbAnalysis = [state |-> "failed", chiSquare |-> FALSE,
                                            samplePairs |-> FALSE]]
  /\ pc' = "rest"
  /\ UNCHANGED <<xvars, build, detectionSettings, currentFile, detectedSignatures,
                 runSettings, scanRegions, hexBytes, currentImageBinary, prior, imgPending>>

\* the remaining steps of startAnalysis (statistics, metadata, visual
\* analysis), which write neither findings nor threat level, and the display
finishAnalysis ==
  /\ pc = "rest"
  /\ pc' = "done"
  /\ UNCHANGED <<xvars, build, detectionSettings, currentFile, analysisResults,
                 detectedSignatures, runSettings, scanRegions, hexBytes,
                 currentImageBinary, prior, imgPending>>

\* resetAnalysis (part_002 has none)
resetAnalysis ==
  /\ pc = "done" /\ build # "part002"
  /\ currentFile' = NoFile
  /\ analysisResults' = IF build \in {"app", "part003"} THEN EmptyResults ELSE FreshResults
  /\ detectedSignatures' = <<>>
  /\ pc' = "idle"
  /\ runSettings' = NoSettings
  /\ scanRegions' = <<>>
  /\ hexBytes' = 0
  /\ currentImageBinary' = IF build = "part001" THEN currentImageBinary ELSE NoFile
  /\ UNCHANGED <<xvars, build, detectionSettings, prior, imgPending>>

Next ==
  \/ \E m \in Modes : ModeChange(m)
  \/ pc = "idle" /\ currentImageBinary = NoFile /\ \E file \in Files : processFile(file)
  \/ startAnalysis_part000
  \/ startAnalysis_part001
  \/ startAnalysis_part002
  \/ analyzeFileSignatures_scan
  \/ analyzeFileSignatures_store
  \/ \E img \in Images : analyzeLSB_onload(img)
  \/ analyzeFileSignaturesRobust_run
  \/ \E img \in Images : analyzeLSBRobust_onload(img)
  \/ analyzeLSBRobust_fail
  \/ finishAnalysis
  \/ resetAnalysis

\* One run at a time over every generated file, the decoder answering each
\* request; a file is submitted to a page that keeps no bytes.
Spec == Init /\ [][Next]_vars

(***************************************************************************)
(* Overlapping submissions, failing steps and late decoder callbacks, over *)
(* a small set of files.                                                   *)
(***************************************************************************)
SmallFiles ==
  { f \in Files : /\ f.len = 3000
                  /\ Cardinality(f.occ) <= 1
                  /\ f.prof.hdr = 3
                  /\ WellFormed(f) }

\* processFile called while the result of the previous file is displayed
processFile_displayed(file) ==
  /\ pc = "done"
  /\ currentFile' = file
  /\ analysisResults' = FreshResults
  /\ detectedSignatures' = <<>>
  /\ pc' = "reading"
  /\ scanRegions' = <<>>
  /\ hexBytes' = 0
  /\ runSettings' = NoSettings
  /\ UNCHANGED <<xvars, build, detectionSettings, currentImageBinary, prior, imgPending>>

\* processFile called while the previous run awaits file.arrayBuffer(): no
\* guard refuses it, and the previous run stays suspended with its own file.
\* Followed for app.js and part_000, with one suspended run at a time.
processFile_overtake(file) ==
  /\ pc = "reading" /\ build \in {"app", "part000"}
  /\ prior = NoFile
  /\ prior' = currentFile
  /\ currentFile' = file
  /\ analysisResults' = FreshResults
  /\ detectedSignatures' = <<>>
  /\ scanRegions' = <<>>
  /\ hexBytes' = 0
  /\ runSettings' = NoSettings
  /\ UNCHANGED <<xvars, build, detectionSettings, pc, currentImageBinary, imgPending>>

\* part_000: the suspended processFile resumes after its await:
\* currentImageBinary = its bytes; startAnalysis() resets the result, scans
\* the globals and displays
resumePrior_part000 ==
  /\ build = "part000" /\ prior # NoFile
  /\ currentImageBinary' = prior
  /\ LET r == analyzeFileSignatures_part000(Stored(prior, currentFile), detectionSettings)
     IN /\ analysisResults' = [FreshResults EXCEPT !.fileSignatures = r.fileSignatures,
                                                   !.threatLevel = r.threatLevel]
        /\ runSettings' = detectionSettings
        /\ hexBytes' = r.hexBytes
        /\ scanRegions' = r.regions
  /\ prior' = NoFile
  /\ UNCHANGED <<xvars, build, detectionSettings, currentFile, detectedSignatures, pc, imgPending>>

\* app.js: the suspended startAnalysis resumes after its await:
\* currentImageBinary = its bytes; analyzeFileSignatures(uint8Array) runs to
\* its end (its await resolves without a task in between) and writes the
\* global analysisResults; the run then waits in analyzeLSB, where it is no
\* longer followed
resumePrior_app ==
  /\ build = "app" /\ prior # NoFile
  /\ currentImageBinary' = prior
  /\ LET filtered == filteredSignatures(DetectSignatures_app(prior, detectionSettings),
                                        detectionSettings)
     IN analysisResults' = [analysisResults EXCEPT !.fileSignatures = filtered,
                                                   !.threatLevel = updateThreatLevel(filtered)]
  /\ runSettings' = detectionSettings
  /\ hexBytes' = hexBytes_app(prior, detectionSettings)
  /\ prior' = NoFile
  /\ UNCHANGED <<xvars, build, detectionSettings, currentFile, detectedSignatures, pc,
                 scanRegions, imgPending>>

\* part_000: a settings listener with a file loaded: the assignment, then
\* startAnalysis() on the bytes the page keeps
ModeChange_rerun(m) ==
  /\ build = "part000" /\ pc \in {"reading", "done"}
  /\ currentFile # NoFile /\ currentImageBinary # NoFile
  /\ detectionSettings' = SettingsOf(m)
  /\ LET r == analyzeFileSignatures_part000(Stored(currentImageBinary, currentFile),
                                            SettingsOf(m))
     IN /\ analysisResults' = [FreshResults EXCEPT !.fileSignatures = r.fileSignatures,
                                                   !.threatLevel = r.threatLevel]
        /\ runSettings' = SettingsOf(m)
        /\ hexBytes' = r.hexBytes
        /\ scanRegions' = r.regions
  /\ UNCHANGED <<xvars, build, currentFile, detectedSignatures, pc, currentImageBinary,
                 prior, imgPending>>

\* part_003 startAnalysis: analyzeFileSignaturesRobust throws (building the
\* hex text fails) and the step's catch records it
analyzeFileSignaturesRobust_throw ==
  /\ pc = "reading" /\ build = "part003"
  /\ analysisResults' = [analysisResults EXCEPT
                           !.analysisErrors = Append(@, "File signature analysis failed")]
  /\ pc' = "lsb"
  /\ currentImageBinary' = currentFile
  /\ UNCHANGED <<xvars, build, detectionSettings, currentFile, detectedSignatures, runSettings,
                 scanRegions, hexBytes, prior, imgPending>>

\* part_003 analyzeLSBRobust: the 30 s timer fires before the decoder
\* answers; img.onload stays attached
analyzeLSBRobust_timeout ==
  /\ pc = "lsb" /\ build = "part003"
  /\ analysisResults' = [analysisResults EXCEPT
                           !.lsbAnalysis = [state |-> "failed", chiSquare |-> FALSE,
                                            samplePairs |-> FALSE]]
  /\ imgPending' = TRUE
  /\ pc' = "rest"
  /\ UNCHANGED <<xvars, build, detectionSettings, currentFile, detectedSignatures,
                 runSettings, scanRegions, hexBytes, currentImageBinary, prior>>

\* part_003 analyzeLSBRobust: img.onload of a step that has timed out
analyzeLSBRobust_late(img) ==
  /\ build = "part003" /\ imgPending
  /\ LET zeros == img.zr + img.zg + img.zb
         chiSquareResult == performSimpleChiSquareTest(zeros, 3 * img.n - zeros)
         samplePairsResult == performSimpleSamplePairsAnalysis(img.pairs, img.regularPairs)
     IN analysisResults' =
          [analysisResults EXCEPT
             !.lsbAnalysis = [state |-> "done", chiSquare |-> chiSquareResult.suspicious,
                              samplePairs |-> samplePairsResult.suspicious]]
  /\ imgPending' = FALSE
  /\ UNCHANGED <<xvars, build, detectionSettings, currentFile, detectedSignatures, pc,
                 runSettings, scanRegions, hexBytes, currentImageBinary, prior>>

NextRuns ==
  \/ \E m \in Modes : ModeChange(m)
  \/ \E m \in Modes : ModeChange_rerun(m)
  \/ pc = "idle" /\ \E file \in SmallFiles : processFile(file)
  \/ pc = "done" /\ \E file \in SmallFiles : processFile_displayed(file)
  \/ pc = "reading" /\ \E file \in SmallFiles : processFile_overtake(file)
  \/ resumePrior_part000
  \/ resumePrior_app
  \/ startAnalysis_part000
  \/ startAnalysis_part001
  \/ startAnalysis_part002
  \/ analyzeFileSignatures_scan
  \/ analyzeFileSignatures_store
  \/ \E img \in Images : analyzeLSB_onload(img)
  \/ analyzeFileSignaturesRobust_run
  \/ analyzeFileSignaturesRobust_throw
  \/ \E img \in Images : analyzeLSBRobust_onload(img)
  \/ analyzeLSBRobust_fail
  \/ analyzeLSBRobust_timeout
  \/ \E img \in Images : analyzeLSBRobust_late(img)
  \/ finishAnalysis
  \/ resetAnalysis

SpecRuns == Init /\ [][NextRuns]_vars

\* What the event loop guarantees: a continuation whose await has resolved
\* runs, and a timer that was set fires.  The submissions, the settings
\* events and the decoder's callbacks (onload, onerror) are the
\* environment's and carry no fairness.
\* The steps of NextRuns named by what they do to the position of the run:
\* a run that has its bytes scans them (startAnalysis_part000 ..
\* analyzeFileSignaturesRobust_run), app.js stores what it scanned, the pixel
\* step of part_003 ends (its timer fires if the decoder has not answered),
\* and the remaining steps end with the display.
RunStep ==
  \/ pc = "reading" /\ pc' \in {"done", "signatures", "lsb"}
  \/ pc = "signatures" /\ pc' = "lsb"
  \/ pc = "lsb" /\ build = "part003" /\ pc' = "rest"
  \/ pc = "rest" /\ pc' = "done"

FairRuns == SpecRuns /\ WF_pc(RunStep)

(***************************************************************************)
(* Properties.                                                             *)
(***************************************************************************)
FindingsOf(sigs) == { sigs[i] : i \in 1..Len(sigs) }

\* builds whose findings carry a confidence
Scored == {"app", "part003"}

\* the signature scan of the run has stored its result
AfterScan ==
  \/ build \in {"part000", "part001", "part002"} /\ pc = "done"
  \/ build \in Scored /\ pc = "lsb"

\* C1: every finding of the result, and every candidate the scan of app.js
\* keeps, carries a confidence c with 0 <= c <= 1
C1_ConfidenceBounded ==
  build \in Scored =>
    \A x \in FindingsOf(analysisResults.fileSignatures) \cup FindingsOf(detectedSignatures) :
      0 <= x.confidence /\ x.confidence <= SCALE

\* C1 witness: app.js has pushed an appended-data finding whose raw score
\* 0.6 + 0.3 + 0.4 was cut to 1.0, next to a scored signature candidate
C1_Witness ==
  /\ build = "app" /\ pc = "signatures"
  /\ \E x \in FindingsOf(analysisResults.fileSignatures) :
       /\ x.signature = "APPENDED_DATA"
       /\ x.confidence = SCALE
       /\ AppendedScore(currentFile, x.offset) > SCALE
  /\ detectedSignatures # <<>>

\* C2: every finding of the final result has a confidence at or above the
\* confidence threshold the run read, appended-data findings included
C2_AboveThreshold ==
  (build \in Scored /\ pc = "done") =>
    \A x \in FindingsOf(analysisResults.fileSignatures) :
      x.confidence >= runSettings.confidenceThreshold

\* the file holds none of the image end markers, so that no locator of any
\* build finds a terminator and no appended region exists
NoTerminator(f) ==
  /\ \A m \in f.occ : m.pat \notin {"FFD9", "003B", PNG_IEND_CHUNK}
  /\ endOffset(f) = -1
  /\ findImageEndOffsets(f) = <<>>
  /\ findImageTerminationPoints(f) = <<>>

\* C3: a conservative scan of a file without image terminator emits no
\* finding and leaves the threat level safe
C3_ConservativeEmpty ==
  (AfterScan /\ build \in {"part001", "part002", "app"}
     /\ runSettings.mode = "conservative" /\ NoTerminator(currentFile)) =>
    /\ analysisResults.fileSignatures = <<>>
    /\ analysisResults.threatLevel = "safe"

\* C4: after a signature scan no two entries of the findings list have the
\* same (signature, offset) pair
C4_NoDuplicates ==
  (AfterScan /\ build \in {"part000", "part002"}) =>
    LET sigs == analysisResults.fileSignatures
    IN \A i, j \in 1..Len(sigs) :
         (sigs[i].signature = sigs[j].signature /\ sigs[i].offset = sigs[j].offset) => i = j

\* the minimum plausible size the build applies to the signature of a finding
minPlausibleSize(x) ==
  IF build = "app" THEN getMinimumFileSize(x, runSettings)
  ELSE IF build = "part003" THEN (IF x.risk = "CRITICAL" THEN 512 ELSE 100)
  ELSE FILE_SIGNATURES_compact[x.signature].minSize

\* C5: every signature finding at offset o of a file of length L satisfies
\* o + minPlausibleSize <= L
C5_MinimumSize ==
  (AfterScan /\ build \in {"part001", "app", "part003"}) =>
    \A x \in FindingsOf(analysisResults.fileSignatures) :
      x.signature # "APPENDED_DATA" => x.offset + minPlausibleSize(x) <= currentFile.len

\* the (signature, offset) pairs a build reports for the file in a mode at
\* the mode's default threshold
Pairs_part000(f, m) ==
  { <<x.signature, x.offset>> :
      x \in FindingsOf(analyzeFileSignatures_part000(f, SettingsOf(m)).fileSignatures) }

Pairs_part001(f, m) ==
  { <<x.signature, x.offset>> :
      x \in FindingsOf(analyzeFileSignatures_part001(f, SettingsOf(m)).fileSignatures) }

\* C6: for the file of the run, the pairs found in aggressive mode include
\* those found in balanced mode, which include those found in conservative mode
C6_ModeMonotone ==
  (pc = "done" /\ build \in {"part000", "part001"}) =>
    LET f == currentFile
    IN IF build = "part000"
       THEN /\ Pairs_part000(f, "conservative") \subseteq Pairs_part000(f, "balanced")
            /\ Pairs_part000(f, "balanced") \subseteq Pairs_part000(f, "aggressive")
       ELSE /\ Pairs_part001(f, "conservative") \subseteq Pairs_part001(f, "balanced")
            /\ Pairs_part001(f, "balanced") \subseteq Pairs_part001(f, "aggressive")

\* a chosen region as the bytes it covers: its start, whether it is the
\* appended region, and for the other regions the number of bytes scanned
Span(start, appended, bytes) == [start |-> start, appended |-> appended, bytes |-> bytes]

ChosenSpans ==
  { Span(r.start, r.format = "appended",
         IF r.format = "appended" THEN 0
         ELSE IF build = "part000" THEN Max(0, budget_part000(currentFile, r))
         ELSE Min(currentFile.len - r.start, budget_part001(currentFile, r))) :
      r \in FindingsOf(scanRegions) }

AppendedSpans(f) == { Span(r.start, TRUE, 0) : r \in FindingsOf(AppendedRegions(f)) }

\* the regions the three modes are to choose
ExpectedSpans(f, mode) ==
  IF mode = "conservative" THEN AppendedSpans(f)
  ELSE IF mode = "balanced"
       THEN (IF AppendedSpans(f) # {} THEN AppendedSpans(f)
             ELSE {Span(0, FALSE, Min(f.len, 64 * KiB))})
  ELSE {Span(0, FALSE, Min(f.len, 256 * KiB))} \cup AppendedSpans(f)

\* C7: the regions a scan chose are exactly the appended region alone in
\* conservative mode, the appended region or else the first 64 KiB in
\* balanced mode, and the first 256 KiB plus the appended region in
\* aggressive mode
C7_RegionsExact ==
  (pc = "done" /\ build \in {"part000", "part001"}) =>
    ChosenSpans = ExpectedSpans(currentFile, runSettings.mode)

\* the largest cap a build declares for one run: maxScanSize of part_003
ScanCap == 10 * KiB * KiB

\* C8: the bytes a run converts to hex text stay within a cap that does not
\* depend on the file length
C8_BoundedScan ==
  hexBytes <= ScanCap

\* the confidence of a finding is above the bar; the builds without
\* confidences report every finding
AboveBar(x) == x.confidence = NoConfidence \/ x.confidence > 7000

\* C9: when the scan has stored its result, a CRITICAL finding above the bar
\* makes the level critical, and otherwise a HIGH finding above the bar makes
\* it high
C9_ThreatRanking ==
  (AfterScan /\ build \in {"app", "part003", "part000"}) =>
    LET sigs == FindingsOf(analysisResults.fileSignatures)
        critical == \E x \in sigs : x.risk = "CRITICAL" /\ AboveBar(x)
        high == \E x \in sigs : x.risk = "HIGH" /\ AboveBar(x)
    IN /\ critical => analysisResults.threatLevel = "critical"
       /\ (~critical /\ high) => analysisResults.threatLevel = "high"

\* C10: a finished run without signature finding whose Chi-Square or
\* Sample-Pairs flag is set ends with threat level medium
C10_StatisticalMedium ==
  (pc = "done" /\ build \in Scored
     /\ analysisResults.fileSignatures = <<>>
     /\ (analysisResults.lsbAnalysis.chiSquare \/ analysisResults.lsbAnalysis.samplePairs)) =>
    analysisResults.threatLevel = "medium"

(***************************************************************************)
(* LSB text extraction (app.js, part_000).  A text is the sequence of its  *)
(* character codes; a pixel buffer is the sequence of its RGBA bytes.      *)
(***************************************************************************)
\* characters of generated messages: ' ' and 'A'
Chars == {32, 65}

MsgLengths == {2, 11}

Messages == UNION { [1..n -> Chars] : n \in MsgLengths }

\* pixels of the generated image
CoverPixels == 40

\* the byte every channel of the cover image holds before the message is written
CoverBytes == {254, 255}

\* the eight bits of a byte, most significant first
bitsOf(c) == [j \in 1..8 |-> (c \div 2^(8 - j)) % 2]

RECURSIVE messageBits(_)
messageBits(bytes) ==
  IF bytes = <<>> THEN <<>> ELSE bitsOf(Head(bytes)) \o messageBits(Tail(bytes))

\* the standard method's writer: the bits of m and of a null byte replace the
\* least significant bits of R, G, B of the successive pixels
embedStandardLSB(m, cover) ==
  [i \in 1..4 * CoverPixels |->
     IF ((i - 1) % 4) < 3 /\ 3 * ((i - 1) \div 4) + ((i - 1) % 4) + 1 <= 8 * (Len(m) + 1)
     THEN (cover - (cover % 2))
          + messageBits(m \o <<0>>)[3 * ((i - 1) \div 4) + ((i - 1) % 4) + 1]
     ELSE cover]

\* app.js extractStandardLSB; the 'standard' case of part_000 extractLSBText
extractStandardLSB(px) ==
  [k \in 1..3 * (Len(px) \div 4) |-> px[4 * ((k - 1) \div 3) + ((k - 1) % 3) + 1] % 2]

\* parseInt(byte, 2) of every complete group of eight bits
bytesOfBits(bits) ==
  [j \in 1..(Len(bits) \div 8) |->
     bits[8 * j - 7] * 128 + bits[8 * j - 6] * 64 + bits[8 * j - 5] * 32 + bits[8 * j - 4] * 16
     + bits[8 * j - 3] * 8 + bits[8 * j - 2] * 4 + bits[8 * j - 1] * 2 + bits[8 * j]]

\* what String.prototype.trim removes, among the codes below 128
Whitespace == {9, 10, 11, 12, 13, 32}

trim(t) ==
  LET keep == {i \in 1..Len(t) : t[i] \notin Whitespace}
  IN IF keep = {} THEN <<>> ELSE SubSeq(t, SetMin(keep), SetMax(keep))

\* the bytes before the first null byte (all of them if there is none)
beforeNull(bytes) ==
  LET nulls == {i \in 1..Len(bytes) : bytes[i] = 0}
  IN IF nulls = {} THEN bytes ELSE SubSeq(bytes, 1, SetMin(nulls) - 1)

\* app.js binaryToASCII: printable codes are kept, a null byte ends the
\* loop, any other byte is skipped; the result is trimmed
binaryToASCII(bits) ==
  trim(SelectSeq(beforeNull(bytesOfBits(bits)), LAMBDA c : c >= 32 /\ c <= 126))

\* the value binaryToUTF8 returns when the decoder throws
NoText == <<-1>>

\* app.js binaryToUTF8: every byte is decoded, null bytes included; a byte
\* that is no UTF-8 (of the generated buffers: 255) makes the fatal decoder
\* throw
binaryToUTF8(bits) ==
  IF \E i \in 1..Len(bytesOfBits(bits)) : bytesOfBits(bits)[i] >= 128
  THEN NoText
  ELSE trim(bytesOfBits(bits))

\* text.indexOf(pat): the first index (from 0) where pat occurs, or -1
indexOfText(text, pat) ==
  LET at == {i \in 1..(Len(text) - Len(pat) + 1) : SubSeq(text, i, i + Len(pat) - 1) = pat}
  IN IF at = {} THEN -1 ELSE SetMin(at) - 1

\* the start and end patterns of extractTextFromBinary:
\* ##### *****, BEGIN_MESSAGE END_MESSAGE, <!---- ---->, -----BEGIN -----END
patterns ==
  << [start |-> <<35, 35, 35, 35, 35>>, end |-> <<42, 42, 42, 42, 42>>],
     [start |-> <<66, 69, 71, 73, 78, 95, 77, 69, 83, 83, 65, 71, 69>>,
      end   |-> <<69, 78, 68, 95, 77, 69, 83, 83, 65, 71, 69>>],
     [start |-> <<60, 33, 45, 45, 45, 45>>, end |-> <<45, 45, 45, 45, 62>>],
     [start |-> <<45, 45, 45, 45, 45, 66, 69, 71, 73, 78>>,
      end   |-> <<45, 45, 45, 45, 45, 69, 78, 68>>] >>

\* app.js extractWithPattern
extractWithPattern(bits, startPattern, endPattern) ==
  LET text == binaryToASCII(bits)
      startIndex == indexOfText(text, startPattern)
      endIndex == indexOfText(text, endPattern)
  IN IF startIndex # -1 /\ endIndex # -1 /\ endIndex > startIndex
     THEN trim(SubSeq(text, startIndex + Len(startPattern) + 1, endIndex))
     ELSE NoText

\* app.js extractTextFromBinary: the texts pushed, empty ones filtered out
extractTextFromBinary(bits) ==
  LET asciiText == binaryToASCII(bits)
      utf8Text == binaryToUTF8(bits)
      found == [k \in 1..Len(patterns) |->
                  extractWithPattern(bits, patterns[k].start, patterns[k].end)]
  IN (IF Len(asciiText) > 10 THEN <<asciiText>> ELSE <<>>)
     \o (IF utf8Text # NoText /\ utf8Text # asciiText /\ Len(utf8Text) > 10
         THEN <<utf8Text>> ELSE <<>>)
     \o SelectSeq(found, LAMBDA t : t # NoText /\ Len(t) > 0)

\* /^[\x20-\x7E\n\r\t]+$/
isPlainText(t) == Len(t) > 0 /\ \A i \in 1..Len(t) : (t[i] >= 32 /\ t[i] <= 126) \/ t[i] \in {9, 10, 13}

\* part_000 extractLSBText after the bits are collected: the text shown, if any
recoverText_part000(bits) ==
  LET bytes == bytesOfBits(bits)
      \* Method 1: the first null byte at an index above 10 whose prefix is plain text
      ends == {i \in 0..(Min(Len(bytes), 10000) - 1) :
                 bytes[i + 1] = 0 /\ i > 10 /\ isPlainText(SubSeq(bytes, 1, i))}
      \* Method 2: every printable byte of the buffer
      printable == SelectSeq(bytes, LAMBDA b : (b >= 32 /\ b <= 126) \/ b = 10 \/ b = 13)
      extractedText == IF ends # {} THEN SubSeq(bytes, 1, SetMin(ends))
                       ELSE IF Len(printable) > 20
                            THEN SubSeq(printable, 1, Min(Len(printable), 5000))
                            ELSE <<>>
      validTextFound == ends # {} \/ Len(printable) > 20
  IN IF validTextFound /\ Len(extractedText) > 10 THEN <<extractedText>> ELSE <<>>

\* app.js extractLSBText with method 'standard'
extractLSBText_app ==
  /\ build = "app" /\ ~extractedTexts.ran
  /\ extractedTexts' = [ran |-> TRUE,
                        texts |-> extractTextFromBinary(extractStandardLSB(pixels))]
  /\ UNCHANGED <<build, detectionSettings, currentFile, analysisResults, detectedSignatures,
                 pc, runSettings, scanRegions, hexBytes, currentImageBinary, prior,
                 imgPending, message, pixels, args, result>>

\* part_000 extractLSBText with method 'standard'
extractLSBText_part000 ==
  /\ build = "part000" /\ ~extractedTexts.ran
  /\ extractedTexts' = [ran |-> TRUE,
                        texts |-> recoverText_part000(extractStandardLSB(pixels))]
  /\ UNCHANGED <<build, detectionSettings, currentFile, analysisResults, detectedSignatures,
                 pc, runSettings, scanRegions, hexBytes, currentImageBinary, prior,
                 imgPending, message, pixels, args, result>>

\* the page holds a decoded image into which a message was written
InitExtract ==
  /\ build \in {"app", "part000"}
  /\ detectionSettings = SettingsOf("conservative")
  /\ currentFile = NoFile
  /\ analysisResults = IF build = "app" THEN EmptyResults ELSE FreshResults
  /\ detectedSignatures = <<>>
  /\ pc = "idle"
  /\ runSettings = NoSettings
  /\ scanRegions = <<>>
  /\ hexBytes = 0
  /\ currentImageBinary = NoFile
  /\ prior = NoFile
  /\ imgPending = FALSE
  /\ message \in Messages
  /\ \E cover \in CoverBytes : pixels = embedStandardLSB(message, cover)
  /\ extractedTexts = NotExtracted
  /\ args = NoCall
  /\ result = NoCall

NextExtract ==
  \/ extractLSBText_app
  \/ extractLSBText_part000

SpecExtract == InitExtract /\ [][NextExtract]_vars

\* the alert of extractCustomPattern when the page keeps no bytes
UploadFirst == -2

\* part_001 extractCustomPattern: the byte offset of the first occurrence of
\* the pattern in the first MiB of currentImageBinary, -1 if there is none
extractCustomPattern(pattern) ==
  IF currentImageBinary = NoFile THEN UploadFirst
  ELSE LET idx == IndexOf(currentImageBinary, pattern, 0,
                          Min(currentImageBinary.len, KiB * KiB), 0)
       IN IF idx # -1 THEN Half(idx) ELSE -1

\* what a run over the current file alone stores as findings and threat level
ResultOfCurrentFile(ds) ==
  IF build = "app"
  THEN LET filtered == filteredSignatures(DetectSignatures_app(currentFile, ds), ds)
       IN [fileSignatures |-> filtered, threatLevel |-> updateThreatLevel(filtered)]
  ELSE LET r == analyzeFileSignatures_part000(currentFile, ds)
       IN [fileSignatures |-> r.fileSignatures, threatLevel |-> r.threatLevel]

\* C11: exactly one run writes the current result: when the run of the
\* current file is finished, the findings and the threat level of
\* analysisResults are those of a scan of the current file, whatever an
\* earlier submission's suspended run did in between (app.js, part_000).
C11_OneWriter ==
  (build \in {"app", "part000"} /\ pc = "done" /\ currentFile # NoFile) =>
    \E m \in Modes :
      /\ analysisResults.fileSignatures = ResultOfCurrentFile(SettingsOf(m)).fileSignatures
      /\ analysisResults.threatLevel \in
           {ResultOfCurrentFile(SettingsOf(m)).threatLevel, "medium"}

\* C12: every started run eventually reaches the finished state, whatever
\* the decoder does: a run that awaits its file's bytes is eventually
\* displayed.
C12_RunsFinish == (pc = "reading") ~> (pc = "done")

\* the builds whose pixel step sets a timer finish every run
RunsFinish_timed == (pc = "reading" /\ build # "app") ~> (pc = "done")

\* C13: a step that fails to decode the image or times out is recorded as
\* an entry of analysisErrors (part_003): a failed pixel step never leaves
\* the list empty.
C13_FailureRecorded ==
  (build = "part003" /\ analysisResults.lsbAnalysis.state = "failed") =>
    analysisResults.analysisErrors # <<>>

\* C14: a decode callback that arrives after its pixel step has timed out
\* changes nothing of analysisResults: neither the report of the step that
\* timed out nor the result of a run started afterwards (part_003).
C14_LateCallbackInert ==
  [][(\E img \in Images : analyzeLSBRobust_late(img)) =>
       analysisResults' = analysisResults]_vars

\* a run is active from the submission of its file until its display
RunActive == pc \notin {"idle", "done"}

\* C15: the detection settings a run reads are the same from its start
\* until its results are displayed: no step taken while a run is active
\* alters detectionSettings, the one place every run reads them from.
C15_SettingsStable == [][RunActive => detectionSettings' = detectionSettings]_vars

\* C16: LSB round trip: a printable-ASCII message written by the standard
\* method, followed by a null byte, is what the standard extraction and the
\* text recovery return: exactly the message, nothing added, dropped or
\* trimmed.
C16_RoundTrip == extractedTexts.ran => extractedTexts.texts = <<message>>

\* the round trip does succeed for some messages
RoundTripSucceeds == extractedTexts.ran /\ extractedTexts.texts = <<message>>

\* the sample's R, G and B least significant bits are each half zeros
EvenSplit(img) == img.n > 0 /\ 2 * img.zr = img.n /\ 2 * img.zg = img.n /\ 2 * img.zb = img.n

\* every least significant bit of the sample is zero
AllZero(img) == img.n > 0 /\ img.zr = img.n /\ img.zg = img.n /\ img.zb = img.n

\* C17: the Chi-Square test does not flag a non-empty sample whose R, G and
\* B least significant bits are each split exactly in half, and it flags a
\* non-empty sample whose least significant bits are all zero.
C17_ChiSquareSanity ==
  [][\A img \in Images :
       (analyzeLSB_onload(img) \/ analyzeLSBRobust_onload(img)) =>
         /\ EvenSplit(img) => ~analysisResults'.lsbAnalysis.chiSquare
         /\ AllZero(img) => analysisResults'.lsbAnalysis.chiSquare]_vars

\* C18: after resetAnalysis the current file, the stored bytes and the
\* result are cleared: the page waiting for a file holds nothing of the
\* previous file, and a pattern search on it finds no bytes to search.
C18_ResetForgets ==
  pc = "idle" =>
    /\ currentFile = NoFile
    /\ currentImageBinary = NoFile
    /\ analysisResults.fileSignatures = <<>>
    /\ \A q \in MarkPatterns : extractCustomPattern(q) = UploadFirst

\* the occurrences of signature sig inside the slab of a scanned region that
\* leave at least the signature's minimum size of bytes behind them
Qualifying(f, region, sig) ==
  { a \in Occurrences(f, sig) :
      /\ a >= 2 * region.start
      /\ a + HexLen(sig) <= 2 * Min(f.len, region.start + budget_part001(f, region))
      /\ f.len - Half(a) >= FILE_SIGNATURES_compact[sig].minSize }

\* C19: within each scanned region every occurrence of every signature is
\* evaluated, not only the first: each occurrence that qualifies is among
\* the findings of the result (part_001).
C19_EveryOccurrence ==
  (build = "part001" /\ pc = "done") =>
    \A region \in FindingsOf(scanned_part001(currentFile, runSettings)) :
      \A sig \in DOMAIN FILE_SIGNATURES_compact :
        \A a \in Qualifying(currentFile, region, sig) :
          \E x \in FindingsOf(analysisResults.fileSignatures) :
            x.signature = sig /\ x.offset = Half(a)

\* the byte index just past an occurrence of the end marker of a format
JustPastMarker(f, format, offset) ==
  \E a \in Occurrences(f, IMAGE_TERMINATION_BYTES[format]) :
    a % 2 = 0 /\ offset = (a \div 2) + HexLen(IMAGE_TERMINATION_BYTES[format]) \div 2

\* C20: every terminator offset the locator reports is the byte index where
\* an end marker of that format starts plus the marker's length in bytes
\* (part_002: the offsets findImageEndOffsets returns for the scanned file,
\* among them the starts of the regions the scan chose).
C20_TerminatorOffsets ==
  (build = "part002" /\ pc = "done") =>
    /\ \A e \in FindingsOf(findImageEndOffsets(currentFile)) :
         JustPastMarker(currentFile, e.format, e.offset)
    /\ \A r \in FindingsOf(scanRegions) :
         r.format # "full" => JustPastMarker(currentFile, r.format, r.start)
(***************************************************************************)
(* Single functions called on their own: the function and its arguments    *)
(* are kept in args, what it returned in result.                           *)
(***************************************************************************)
\* the variables a call of a single function leaves alone
pageVars == <<build, detectionSettings, currentFile, analysisResults, detectedSignatures,
              pc, runSettings, scanRegions, hexBytes, currentImageBinary, prior, imgPending,
              message, pixels, extractedTexts>>

\* files handed to single functions: at most one pattern occurrence
CallFiles == {f \in Files : Cardinality(f.occ) <= 1 /\ WellFormed(f)}

\* candidate offsets handed to validateContext
CallOffsets == Positions \cup {1024}

\* app.js validateContext(uint8Array, offset, imageTerminationPoints) with
\* the termination points findImageTerminationPoints found in the file
validateContext_call(f, offset) ==
  /\ build = "app"
  /\ args' = [fn |-> "validateContext", f |-> f, offset |-> offset]
  /\ result' = validateContext(f, offset, findImageTerminationPoints(f))
  /\ UNCHANGED pageVars

\* the category of FILE_SIGNATURES in which the i-th record of the flattened
\* table stands
categoryOf(i) ==
  IF i <= 3 THEN "executables"
  ELSE IF i <= 7 THEN "archives"
  ELSE IF i <= 12 THEN "images"
  ELSE IF i <= 14 THEN "documents"
  ELSE "audioVideo"

\* app.js validateSignatureDetection for the i-th record of the table, under
\* the settings of mode m
validateSignatureDetection_call(f, offset, i, m) ==
  /\ build = "app"
  /\ args' = [fn |-> "validateSignatureDetection", f |-> f, offset |-> offset,
              sig |-> i, mode |-> m]
  /\ result' = validateSignatureDetection(f, offset, FILE_SIGNATURES_app[i],
                                           findImageTerminationPoints(f), SettingsOf(m))
  /\ UNCHANGED pageVars

\* data.length of a byte array, a function on 0 .. length - 1
Length(data) == Cardinality(DOMAIN data)

\* data[i] of a Uint8Array: undefined outside 0 .. length - 1
Undefined == -1

At(data, i) == IF i \in DOMAIN data THEN data[i] ELSE Undefined

\* ToInt32 of an operand of | and <<: undefined becomes 0
Int32Of(x) == IF x = Undefined THEN 0 ELSE x

\* b0 | (b1 << 8) | (b2 << 16) | (b3 << 24) on bytes: a signed 32-bit value,
\* negative when the top bit of b3 is set
Int32LE(b0, b1, b2, b3) ==
  b0 + 256 * b1 + 65536 * b2 + 16777216 * (IF b3 >= 128 THEN b3 - 256 ELSE b3)

\* the four bytes at 60..63 of the generated arrays
OffsetBytes ==
  { <<0, 0, 0, 0>>, <<128, 0, 0, 0>>, <<195, 0, 0, 0>>, <<196, 0, 0, 0>>,
    <<0, 1, 0, 0>>, <<128, 0, 0, 128>>, <<255, 255, 255, 255>> }

\* the two bytes of the machine type of the generated arrays: 0x014c, 0x0000
MachineBytes == { <<76, 1>>, <<0, 0>> }

DataLengths == {63, 64, 200}

\* a byte array: 'MZ' or zeros at 0, the offset bytes at 60..63, and at the
\* offset they give 'PE' or zeros and the machine type, zeros elsewhere
MakeData(len, mz, off, pe, mach) ==
  LET p == Int32LE(off[1], off[2], off[3], off[4])
  IN [i \in 0..(len - 1) |->
        IF i = 0 THEN (IF mz THEN 77 ELSE 0)
        ELSE IF i = 1 THEN (IF mz THEN 90 ELSE 0)
        ELSE IF i \in 60..63 THEN off[i - 59]
        ELSE IF i = p THEN (IF pe THEN 80 ELSE 0)
        ELSE IF i = p + 1 THEN (IF pe THEN 69 ELSE 0)
        ELSE IF i = p + 4 THEN mach[1]
        ELSE IF i = p + 5 THEN mach[2]
        ELSE 0]

DataSet ==
  { MakeData(len, mz, off, pe, mach) :
      len \in DataLengths, mz \in BOOLEAN, off \in OffsetBytes, pe \in BOOLEAN,
      mach \in MachineBytes }

\* app.js validatePEExecutable on the bytes of data: the value returned and
\* the indices of data the call read
validatePEExecutable_data(data) ==
  IF Length(data) < 64 THEN [value |-> 0, reads |-> {}]
  ELSE IF data[0] # 77 THEN [value |-> 0, reads |-> {0}]
  ELSE IF data[1] # 90 THEN [value |-> 0, reads |-> {0, 1}]
  ELSE LET peOffset == Int32LE(data[60], data[61], data[62], data[63])
           hdr == {0, 1, 60, 61, 62, 63}
           machineType == Int32Of(At(data, peOffset + 4))
                            + 256 * Int32Of(At(data, peOffset + 5))
       IN IF peOffset >= Length(data) - 4 THEN [value |-> 1000, reads |-> hdr]
          ELSE IF At(data, peOffset) # 80
               THEN [value |-> 3000, reads |-> hdr \cup {peOffset}]
          ELSE IF At(data, peOffset + 1) # 69
               THEN [value |-> 3000, reads |-> hdr \cup {peOffset, peOffset + 1}]
          ELSE [value |-> IF machineType \notin {332, 34404, 448, 452} THEN 5000 ELSE 9000,
                reads |-> hdr \cup {peOffset, peOffset + 1, peOffset + 4, peOffset + 5}]

validatePEExecutable_call(data) ==
  /\ build = "app"
  /\ args' = [fn |-> "validatePEExecutable", data |-> data]
  /\ result' = validatePEExecutable_data(data)
  /\ UNCHANGED pageVars

\* validateAppendedData(data) of app.js and of part_000, for the data that
\* starts at byte start of the file and runs to its end (uint8Array.slice)
validateAppendedData_call(f, start) ==
  /\ build \in {"app", "part000"}
  /\ start < f.len
  /\ args' = [fn |-> "validateAppendedData", f |-> f, start |-> start]
  /\ result' = IF build = "app" THEN validateAppendedData(f, start)
               ELSE validateAppendedData_compact(f, start)
  /\ UNCHANGED pageVars

\* app.js extractSequentialLSB: for (i = 0; i < pixels.length; i += 4) one
\* bit, of channel channelIndex % 3, channelIndex counting the pixels
extractSequentialLSB(px) ==
  [k \in 1..(Len(px) \div 4) |-> px[4 * (k - 1) + ((k - 1) % 3) + 1] % 2]

\* part_000 extractLSBText, case 'sequential': every byte i of the buffer
\* with i % 4 !== 3
extractSequentialLSB_part000(px) ==
  LET bit(i) == px[i + 1] % 2
      idx == SelectSeq([i \in 1..Len(px) |-> i - 1], LAMBDA i : i % 4 # 3)
  IN [k \in 1..Len(idx) |-> bit(idx[k])]

\* at most this many pixels in a buffer handed to an extractor
MaxPixels == 3

\* one RGBA pixel: every combination of channel low bits, alpha 255
PixelSet == { <<r, g, b, 255>> : r \in CoverBytes, g \in CoverBytes, b \in CoverBytes }

\* imgData.data: the RGBA bytes of 1 .. MaxPixels pixels
RECURSIVE PixelBuffers(_)
PixelBuffers(n) ==
  IF n = 0 THEN { <<>> }
  ELSE { b \o q : b \in PixelBuffers(n - 1), q \in PixelSet }

\* the extraction with method 'sequential' of app.js and of part_000
extractSequentialLSB_call(px) ==
  /\ build \in {"app", "part000"}
  /\ args' = [fn |-> "extractSequentialLSB", pixels |-> px]
  /\ result' = IF build = "app" THEN extractSequentialLSB(px)
               ELSE extractSequentialLSB_part000(px)
  /\ UNCHANGED pageVars

\* at most this many findings in a list handed to a threat aggregation
MaxFindings == 3

\* findings as the aggregations read them: a risk tier and a confidence on
\* either side of the limits 0.6, 0.7 and 0.8
CallFindings ==
  { Finding("4D5A", 40, "CRITICAL", c, {"exe"}) : c \in {6000, 6500, 7500, 8500} }
    \cup { Finding("504B0304", 40, "HIGH", c, {"zip"}) : c \in {6000, 6500, 7500, 8500} }
    \cup { Finding("25504446", 40, "MEDIUM", c, {"pdf"}) : c \in {6000, 6500, 7500, 8500} }
    \cup { Finding("FFD8FFDB", 40, "LOW", c, {"jpg"}) : c \in {6000, 6500, 7500, 8500} }

\* the place of a finding's risk tier among the tiers
TierRank(x) ==
  IF x.risk = "CRITICAL" THEN 1 ELSE IF x.risk = "HIGH" THEN 2
  ELSE IF x.risk = "MEDIUM" THEN 3 ELSE 4

\* the lists of n findings in the order the scan of app.js leaves them, by
\* falling confidence (findings of equal confidence by tier, so that each
\* multiset of findings is listed once)
FindingLists(n) ==
  { s \in [1..n -> CallFindings] :
      \A i \in 1..(n - 1) :
        \/ s[i].confidence > s[i + 1].confidence
        \/ s[i].confidence = s[i + 1].confidence /\ TierRank(s[i]) <= TierRank(s[i + 1]) }

\* updateThreatLevel of app.js and updateThreatLevelSimple of part_003 on a
\* list of findings, and on the list with one more finding
updateThreatLevel_call(sigs, x) ==
  /\ build \in {"app", "part003"}
  /\ args' = [fn |-> "updateThreatLevel", signatures |-> sigs, added |-> x]
  /\ result' = IF build = "app"
               THEN [before |-> updateThreatLevel(sigs),
                     after  |-> updateThreatLevel(InsertByConfidence(x, sigs))]
               ELSE [before |-> updateThreatLevelSimple(sigs),
                     after  |-> updateThreatLevelSimple(Append(sigs, x))]
  /\ UNCHANGED pageVars

\* every single function, called once with each of its generated arguments
\* on a page that has made no call yet
NextCalls ==
  \/ build = "app" /\ args = NoCall /\ \E f \in CallFiles, offset \in CallOffsets : validateContext_call(f, offset)
  \/ build = "app" /\ args = NoCall /\ \E f \in SmallFiles, i \in 1..Len(FILE_SIGNATURES_app), m \in Modes :
       validateSignatureDetection_call(f, 40, i, m)
  \/ build = "app" /\ args = NoCall /\ \E data \in DataSet : validatePEExecutable_call(data)
  \/ build \in {"app", "part000"} /\ args = NoCall /\ \E f \in CallFiles, start \in CallOffsets :
       validateAppendedData_call(f, start)
  \/ build \in {"app", "part000"} /\ args = NoCall /\ \E n \in 1..MaxPixels : \E px \in PixelBuffers(n) :
       extractSequentialLSB_call(px)
  \/ build \in {"app", "part003"} /\ args = NoCall /\ \E n \in 0..MaxFindings :
       \E sigs \in FindingLists(n), x \in CallFindings : updateThreatLevel_call(sigs, x)

SpecCalls == Init /\ [][NextCalls]_vars

(***************************************************************************)
(* Files whose hex text holds a signature pattern that starts at the       *)
(* second hex digit of a byte (bytes x5 04 B0 30 4y hold "504B0304" at an  *)
(* odd index).  The builds that take the floor of index / 2 scan them.     *)
(***************************************************************************)
\* an occurrence of pat that starts in the middle of byte pos
OddMark(pat, pos) == [pat |-> pat, at |-> 2 * pos + 1]

\* one such occurrence of a signature, next to at most one pattern that
\* starts at a byte
NibbleMarkSets ==
  { {o} \cup ms : o \in { OddMark(p, pos) : p \in {"7F454C46", "504B0304"}, pos \in Positions },
                  ms \in { x \in MarkSets : Cardinality(x) <= 1 } }

NibbleFiles ==
  { f \in { [type |-> t, len |-> l, occ |-> ms, prof |-> pr] :
              t \in FileTypes, l \in FileLengths, ms \in NibbleMarkSets, pr \in Profiles } :
      /\ WellFormed(f)
      /\ \A a, b \in f.occ :
           a = b \/ a.at + HexLen(a.pat) <= b.at \/ b.at + HexLen(b.pat) <= a.at }

InitNibble == Init /\ build # "app"

NextNibble ==
  \/ \E m \in Modes : ModeChange(m)
  \/ pc = "idle" /\ currentImageBinary = NoFile /\ \E file \in NibbleFiles : processFile(file)
  \/ startAnalysis_part000
  \/ startAnalysis_part001
  \/ startAnalysis_part002
  \/ analyzeFileSignaturesRobust_run
  \/ \E img \in Images : analyzeLSBRobust_onload(img)
  \/ analyzeLSBRobust_fail
  \/ finishAnalysis
  \/ resetAnalysis

SpecNibble == InitNibble /\ [][NextNibble]_vars

\* the file holds no end marker of the format its MIME type declares
NoEndMarker(f) ==
  \/ f.type = "image/jpeg" /\ Occurrences(f, "FFD9") = {}
  \/ f.type = "image/png" /\ Occurrences(f, PNG_IEND_CHUNK) = {}
  \/ f.type = "image/gif" /\ Occurrences(f, "3B") = {}

\* C21: for a file without end marker of its declared format (a GIF without
\* a 0x3B byte in particular) the terminator location of part_000 and
\* part_001 yields the sentinel -1 and the scan builds no appended region
C21_NoMarkerNoRegion ==
  (AfterScan /\ build \in {"part000", "part001"} /\ NoEndMarker(currentFile)) =>
    /\ endOffset(currentFile) = -1
    /\ \A r \in FindingsOf(scanRegions) : r.format # "appended"
\* the context score of a candidate at offset o as the rule gives it: 1.0 at
\* or after the end offset of some terminator, else 0.8 below 1024, else 1
\* minus the repeating-pattern score
ContextRule(f, o) ==
  LET tps == findImageTerminationPoints(f)
  IN IF \E i \in 1..Len(tps) : o >= tps[i].offset THEN SCALE
     ELSE IF o < 1024 THEN 8000
     ELSE SCALE - checkForRegularPatterns(f, o)

\* C22: validateContext scores a candidate 1.0 whenever its offset lies at or
\* after the end offset of some terminator (a payload that starts at the byte
\* just past the terminator included), otherwise 0.8 below offset 1024,
\* otherwise 1 minus the repeating-pixel-pattern score
C22_ContextScore ==
  args.fn = "validateContext" => result = ContextRule(args.f, args.offset)

\* the risk tier of a signature class
TierOfClass(category) ==
  IF category = "executables" THEN "CRITICAL"
  ELSE IF category = "archives" THEN "HIGH"
  ELSE IF category = "documents" THEN "MEDIUM"
  ELSE "LOW"

\* C23: the risk tier of a finding is determined by the class of its record
\* in the signature table alone: CRITICAL for every executable signature,
\* HIGH for every archive, MEDIUM for every document, LOW for all others
C23_RiskByClass ==
  args.fn = "validateSignatureDetection" =>
    result.riskLevel = TierOfClass(categoryOf(args.sig))

\* the little-endian 32-bit offset at bytes 60..63 points inside the data,
\* with room for the fields of the PE header that are read; an offset with
\* the top bit set is 2^31 or more and never does
PointsInside(data) ==
  /\ data[63] < 128
  /\ Int32LE(data[60], data[61], data[62], data[63]) < Length(data) - 4

\* the staged value of validatePEExecutable as the rule gives it
PERule(data) ==
  IF Length(data) < 64 \/ data[0] # 77 \/ data[1] # 90 THEN 0
  ELSE IF ~PointsInside(data) THEN 1000
  ELSE LET p == Int32LE(data[60], data[61], data[62], data[63])
       IN IF data[p] # 80 \/ data[p + 1] # 69 THEN 3000
          ELSE IF At(data, p + 4) + 256 * Int32Of(At(data, p + 5))
                    \notin {332, 34404, 448, 452} THEN 5000
          ELSE 9000

\* C24: validatePEExecutable returns 0 for fewer than 64 bytes or no 'MZ',
\* 0.1 if the little-endian 32-bit offset at byte 60 does not point inside
\* the data (values with the top bit set included), 0.3 if the PE signature
\* is not at that offset, 0.5 for an unknown machine type, 0.9 otherwise
C24_PEStages ==
  args.fn = "validatePEExecutable" => result.value = PERule(args.data)

\* C25: every index validatePEExecutable reads lies in 0 .. data.length - 1,
\* whatever the four offset bytes at 60..63 are
C25_ReadsInBounds ==
  args.fn = "validatePEExecutable" =>
    \A i \in result.reads : 0 <= i /\ i < Length(args.data)

\* the signature patterns that checkForKnownSignatures of every build knows
KnownSignatures == {"4D5A", "504B0304", "52617221", "377ABCAF271C", "25504446"}

\* a known signature pattern occurs somewhere in the bytes from start to the
\* end of the file
SignatureInWindow(f, start) ==
  \E s \in KnownSignatures : IndexOf(f, s, start, f.len, 0) # -1

\* the capped score of a window with the signature bonus added
ScoreWithBonus(f) ==
  Min(SCALE, (IF f.prof.nulls > 9000 THEN 1000 ELSE IF f.prof.nulls > 7000 THEN 3000 ELSE 6000)
               + (IF f.prof.entropy > 5000 THEN 3000 ELSE 0) + 4000)

\* C26: validateAppendedData reports riskLevel HIGH and adds the signature
\* bonus whenever a known signature pattern occurs anywhere in the window
\* of bytes after the terminator, not only near the start of the window
C26_SignatureAnywhere ==
  (args.fn = "validateAppendedData" /\ SignatureInWindow(args.f, args.start)) =>
    /\ result.riskLevel = "HIGH"
    /\ result.confidence = ScoreWithBonus(args.f)

\* C27: with method 'sequential' the extractor emits one bit per pixel, pixel
\* k giving the lowest bit of its channel k mod 3, so that the output has as
\* many bits as there are pixels and differs from the 'standard' output
C27_SequentialOnePerPixel ==
  args.fn = "extractSequentialLSB" =>
    /\ Len(result) = Len(args.pixels) \div 4
    /\ \A k \in 0..(Len(args.pixels) \div 4) - 1 :
         result[k + 1] = args.pixels[4 * k + (k % 3) + 1] % 2
    /\ result # extractStandardLSB(args.pixels)

\* the bytes of the file from offset o on are exactly the bytes of the
\* pattern: its hex text starts at hex digit 2 * o
BytesMatch(f, o, pat) == o >= 0 /\ 2 * o \in Occurrences(f, pat)

\* C28: the offset of every signature finding is a byte index at which the
\* bytes of the file are the bytes of the signature's pattern; no finding
\* comes from a match of the hex text that starts in the middle of a byte
C28_ByteAligned ==
  AfterScan =>
    \A x \in FindingsOf(analysisResults.fileSignatures) :
      x.signature # "APPENDED_DATA" => BytesMatch(currentFile, x.offset, x.signature)

\* the appended-data findings checkAppendedFiles accepts for the current
\* file under the settings the run read
AcceptedAppended ==
  checkAppendedFiles(currentFile, findImageTerminationPoints(currentFile), runSettings)

\* C29: an appended-data finding that checkAppendedFiles accepts is still in
\* analysisResults.fileSignatures when analyzeFileSignatures of app.js has
\* returned, and the threat level is computed from a finding set that holds it
C29_AppendedKept ==
  (build = "app" /\ pc = "lsb") =>
    /\ \A x \in FindingsOf(AcceptedAppended) :
         x \in FindingsOf(analysisResults.fileSignatures)
    /\ analysisResults.threatLevel =
         updateThreatLevel(filteredSignatures(detectedSignatures, runSettings)
                             \o AcceptedAppended)

\* the place of a threat level in the order safe < low < medium < high < critical
LevelRank(level) ==
  IF level = "safe" THEN 0 ELSE IF level = "low" THEN 1 ELSE IF level = "medium" THEN 2
  ELSE IF level = "high" THEN 3 ELSE 4

\* C30: the threat level computed for a finding set with one more finding is
\* never lower than the level computed for the set itself, in the order
\* safe < low < medium < high < critical
C30_ThreatMonotone ==
  args.fn = "updateThreatLevel" => LevelRank(result.before) <= LevelRank(result.after)

\* C30 witness: app.js rates two findings above 0.8 as medium, and still does
\* after a third finding above 0.8 of the lowest tier has joined them
C30_Witness ==
  /\ build = "app" /\ args.fn = "updateThreatLevel"
  /\ Len(SelectSeq(args.signatures, LAMBDA x : x.confidence > 8000)) = 2
  /\ args.added.risk = "LOW" /\ args.added.confidence > 8000
  /\ result.before = "medium" /\ result.after = "medium"
====
